---- MODULE Spec2Model ----
(***************************************************************************)
(* The Intcode machines of problems 5, 7, 9 and 11 as one state machine.   *)
(* A machine is a record; every handler of the source is an operator from  *)
(* a machine (and the state of its two channel ends) to the outcome of the *)
(* handler.  Memory is a function over 0..len-1, as the Vec<isize> of the  *)
(* source is indexed.                                                      *)
(***************************************************************************)
EXTENDS Integers, Sequences, FiniteSets, TLC

(***************************************************************************)
(* Machine words.  The source computes in isize/usize (64 bits); the model *)
(* keeps the two's-complement behaviour at WordBits bits.                  *)
(***************************************************************************)
WordBits == 16

UsizeMod == 2 ^ WordBits

MinWord == -(2 ^ (WordBits - 1))

MaxWord == (2 ^ (WordBits - 1)) - 1

Fits(v) == MinWord <= v /\ v <= MaxWord

\* two's-complement wrap of a mathematical integer into the word range
Wrap(v) == ((v - MinWord) % UsizeMod) + MinWord

\* the magnitude of an isize in place of the cast
unsigned_abs(v) == IF v < 0 THEN -v ELSE v

\* `x as usize` of an isize: a negative word becomes a huge unsigned one
AsUsize(v) == IF v < 0 THEN v + UsizeMod ELSE v

\* 2^64 mod 10^5: the five low decimal digits of `w as usize` for w < 0 are
\* those of 2^64 + w
Usize64Low5 == 51616

Low5(w) == IF w >= 0 THEN w % 100000 ELSE (Usize64Low5 + w) % 100000

Pow10(i) == 10 ^ i

MemLen(m) == Cardinality(DOMAIN m.memory)

\* an index the Vec accepts; any other index panics
InBounds(m, a) == 0 <= a /\ a < MemLen(m)

(***************************************************************************)
(* Outcome of one handler: the machine after it, how many values it        *)
(* received from its input channel, the values it sent on its output       *)
(* channel, and whether it is suspended in recv().                         *)
(***************************************************************************)
Outcome(m, recv, send) == [m |-> m, recv |-> recv, send |-> send, blocked |-> FALSE]

Blocked(m) == [m |-> m, recv |-> 0, send |-> <<>>, blocked |-> TRUE]

Panic(m, why) == Outcome([m EXCEPT !.status = why], 0, <<>>)

HasRelative(kind) == kind \in {9, 11}

HasChannels(kind) == kind \in {7, 9}

\* Mode::from_code: the mode of a digit, "panic" for a digit the enum lacks
from_code(kind, code) ==
  CASE code = 0 -> "Position"
    [] code = 1 -> "Value"
    [] code = 2 /\ HasRelative(kind) -> "Relative"
    [] OTHER -> "panic"

\* decode_instruction with the mode digits taken in the opposite order
decode_instruction_reversed(m) ==
  LET instruction == Low5(m.memory[m.cmd_ptr])
  IN [opcode |-> instruction % 100,
      modes |-> [i \in 1..3 |->
                   from_code(m.kind, (instruction \div Pow10(5 - i)) % 10)],
      cmd_ptr |-> m.cmd_ptr + 1]

\* decode_instruction: opcode, the three modes (i = 2, 3, 4 of the source
\* are the digits of parameters 1, 2, 3), the advanced pointer
decode_instruction(m) ==
  LET instruction == Low5(m.memory[m.cmd_ptr])
  IN [opcode |-> instruction % 100,
      modes |-> [i \in 1..3 |->
                   from_code(m.kind, (instruction \div Pow10(i + 1)) % 10)],
      cmd_ptr |-> m.cmd_ptr + 1]

\* the match of get_current_memory_slice: -1 stands for the panic arm
arg_count(kind, opcode) ==
  CASE opcode \in {1, 2, 7, 8} -> 3
    [] opcode \in {3, 4} -> 1
    [] opcode \in {5, 6} -> 2
    [] opcode = 9 /\ HasRelative(kind) -> 1
    [] opcode = 99 -> 0
    [] OTHER -> -1

\* get_current_memory_slice that takes a parameter for every digit the word
\* has above the opcode
get_current_memory_slice_by_digits(m, opcode) ==
  LET word == m.memory[m.cmd_ptr - 1]
      digits == IF word >= 10000 THEN 3 ELSE IF word >= 1000 THEN 2 ELSE 0
      count == IF digits > arg_count(m.kind, opcode) THEN digits
               ELSE arg_count(m.kind, opcode)
  IN [i \in 1..count |->
        IF InBounds(m, m.cmd_ptr + i - 1) THEN m.memory[m.cmd_ptr + i - 1] ELSE 0]

\* get_current_memory_slice: the raw parameters after the opcode word
get_current_memory_slice(m, opcode) ==
  [i \in 1..arg_count(m.kind, opcode) |-> m.memory[m.cmd_ptr + i - 1]]

\* build_args, one parameter, without the relative base
arg_sum_absolute(m, i, raw_arg, mode) ==
  CASE mode = "Position" -> raw_arg
    [] mode = "Value" -> m.cmd_ptr + i
    [] mode = "Relative" -> raw_arg

\* build_args, one parameter (i counts from 0 as enumerate() does): the
\* mathematical address before the cast to usize
arg_sum(m, i, raw_arg, mode) ==
  CASE mode = "Position" -> raw_arg
    [] mode = "Value" -> m.cmd_ptr + i
    [] mode = "Relative" -> m.rel_base + raw_arg

\* build_args with the relative arm counting from the pointer
build_args_from_pointer(m, raw_args, modes) ==
  [i \in 1..Len(raw_args) |->
     CASE modes[i] = "Value" -> m.cmd_ptr + (i - 1)
       [] modes[i] = "Relative" -> AsUsize(Wrap(m.cmd_ptr + raw_args[i]))
       [] OTHER -> AsUsize(raw_args[i])]

\* build_args with the value arm reading the parameter as an address
build_args_by_position(m, raw_args, modes) ==
  [i \in 1..Len(raw_args) |->
     IF modes[i] = "Relative" THEN AsUsize(Wrap(m.rel_base + raw_args[i]))
     ELSE AsUsize(raw_args[i])]

\* build_args: the addresses, each a usize
build_args(m, raw_args, modes) ==
  [i \in 1..Len(raw_args) |->
     IF modes[i] = "Value" THEN arg_sum(m, i - 1, raw_args[i], modes[i])
     ELSE AsUsize(Wrap(arg_sum(m, i - 1, raw_args[i], modes[i])))]

\* build_args in a build with overflow checks: rel_base + raw_arg panics
build_overflows(m, raw_args, modes) ==
  \E i \in 1..Len(raw_args) :
     modes[i] = "Relative" /\ ~Fits(m.rel_base + raw_args[i])

Abs(v) == IF v < 0 THEN -v ELSE v

\* whether a * b lies in the word range (decided without forming a product
\* wider than twice the word)
MulFits(a, b) ==
  \/ a = 0
  \/ b = 0
  \/ (Abs(a) <= UsizeMod \div Abs(b) /\ Fits(a * b))

\* isize::wrapping_mul, by halves of b so that no partial product is wider
\* than the word plus a byte
WrapMul(a, b) ==
  LET bh == b \div 256
      bl == b % 256
  IN Wrap((Wrap(a * bh) * 256) + (a * bl))

\* a handler whose `if let` does not match returns None without a change
NoMatch(m) == Outcome([m EXCEPT !.status = "halted"], 0, <<>>)

add(m, args, oc) ==
  IF Len(args) # 3 THEN NoMatch(m)
  ELSE LET a_pos == args[1]
           b_pos == args[2]
           output_pos == args[3]
       IN IF ~InBounds(m, a_pos) \/ ~InBounds(m, b_pos) THEN Panic(m, "index")
          ELSE LET sum == m.memory[a_pos] + m.memory[b_pos]
               IN IF oc /\ ~Fits(sum) THEN Panic(m, "overflow")
                  ELSE IF ~InBounds(m, output_pos) THEN Panic(m, "index")
                  ELSE Outcome([m EXCEPT !.memory[output_pos] = Wrap(sum),
                                         !.cmd_ptr = @ + 3], 0, <<>>)

\* mul with the body of add
mul_adds(m, args, oc) == add(m, args, oc)

mul(m, args, oc) ==
  IF Len(args) # 3 THEN NoMatch(m)
  ELSE LET a_pos == args[1]
           b_pos == args[2]
           output_pos == args[3]
       IN IF ~InBounds(m, a_pos) \/ ~InBounds(m, b_pos) THEN Panic(m, "index")
          ELSE IF oc /\ ~MulFits(m.memory[a_pos], m.memory[b_pos])
                 THEN Panic(m, "overflow")
          ELSE IF ~InBounds(m, output_pos) THEN Panic(m, "index")
          ELSE Outcome([m EXCEPT !.memory[output_pos] =
                                     WrapMul(m.memory[a_pos], m.memory[b_pos]),
                                 !.cmd_ptr = @ + 3], 0, <<>>)

\* store_channel that stores a default of 0 and goes on when recv() fails
store_channel_defaults(m, args, rx, rx_open) ==
  LET storage_position == args[1]
      taken == [m EXCEPT !.phase_setting = <<>>]
  IN IF m.phase_setting # <<>>
       THEN IF ~InBounds(m, storage_position) THEN Panic(taken, "index")
            ELSE Outcome([taken EXCEPT !.memory[storage_position] = m.phase_setting[1],
                                       !.cmd_ptr = @ + 1], 0, <<>>)
     ELSE IF rx # <<>>
       THEN IF ~InBounds(m, storage_position)
              THEN Outcome([m EXCEPT !.status = "index"], 1, <<>>)
            ELSE Outcome([m EXCEPT !.memory[storage_position] = Head(rx),
                                   !.cmd_ptr = @ + 1], 1, <<>>)
     ELSE IF rx_open THEN Blocked(m)
     ELSE IF ~InBounds(m, storage_position) THEN Panic(m, "index")
     ELSE Outcome([m EXCEPT !.memory[storage_position] = 0,
                            !.cmd_ptr = @ + 1], 0, <<>>)

\* store that reads the phase setting without taking it
store_channel_keeps_phase(m, args, rx, rx_open) ==
  LET storage_position == args[1]
  IN IF m.phase_setting # <<>>
       THEN IF ~InBounds(m, storage_position) THEN Panic(m, "index")
            ELSE Outcome([m EXCEPT !.memory[storage_position] = m.phase_setting[1],
                                   !.cmd_ptr = @ + 1], 0, <<>>)
     ELSE IF rx # <<>>
       THEN IF ~InBounds(m, storage_position)
              THEN Outcome([m EXCEPT !.status = "index"], 1, <<>>)
            ELSE Outcome([m EXCEPT !.memory[storage_position] = Head(rx),
                                   !.cmd_ptr = @ + 1], 1, <<>>)
     ELSE IF rx_open THEN Blocked(m)
     ELSE Panic(m, "recv")

\* store of problems 7 and 9: phase_setting.take(), else recv(); the value is
\* taken before the destination is indexed
store_channel(m, args, rx, rx_open) ==
  LET storage_position == args[1]
      taken == [m EXCEPT !.phase_setting = <<>>]
  IN IF m.phase_setting # <<>>
       THEN IF ~InBounds(m, storage_position) THEN Panic(taken, "index")
            ELSE Outcome([taken EXCEPT !.memory[storage_position] = m.phase_setting[1],
                                       !.cmd_ptr = @ + 1], 0, <<>>)
     ELSE IF rx # <<>>
       THEN IF ~InBounds(m, storage_position)
              THEN Outcome([m EXCEPT !.status = "index"], 1, <<>>)
            ELSE Outcome([m EXCEPT !.memory[storage_position] = Head(rx),
                                   !.cmd_ptr = @ + 1], 1, <<>>)
     ELSE IF rx_open THEN Blocked(m)
     ELSE Panic(m, "recv")

\* store of problems 5 (self.input) and 11 (self.input_signal)
store_field(m, args) ==
  LET storage_position == args[1]
  IN IF ~InBounds(m, storage_position) THEN Panic(m, "index")
     ELSE Outcome([m EXCEPT !.memory[storage_position] = m.input_signal,
                            !.cmd_ptr = @ + 1], 0, <<>>)

store(m, args, rx, rx_open) ==
  IF Len(args) # 1 THEN NoMatch(m)
  ELSE IF HasChannels(m.kind) THEN store_channel(m, args, rx, rx_open)
  ELSE store_field(m, args)

\* push_output that sends the position of the value, not the value
push_output_channel_sends_position(m, args, tx_open) ==
  LET data_position == args[1]
  IN IF ~InBounds(m, data_position) THEN Panic(m, "index")
     ELSE IF ~tx_open THEN Panic(m, "send")
     ELSE Outcome([m EXCEPT !.cmd_ptr = @ + 1], 0, <<data_position>>)

\* push_output of problems 7 and 9: send on the output channel
push_output_channel(m, args, tx_open) ==
  LET data_position == args[1]
  IN IF ~InBounds(m, data_position) THEN Panic(m, "index")
     ELSE IF ~tx_open THEN Panic(m, "send")
     ELSE Outcome([m EXCEPT !.cmd_ptr = @ + 1], 0, <<m.memory[data_position]>>)

\* push_output of problem 5: push on the output Vec
push_output_vec(m, args) ==
  LET data_position == args[1]
  IN IF ~InBounds(m, data_position) THEN Panic(m, "index")
     ELSE Outcome([m EXCEPT !.output = Append(@, m.memory[data_position]),
                            !.cmd_ptr = @ + 1], 0, <<>>)

\* the side of the square panels array, and the array index of coordinate 0
PanelSize == 1000

PanelOrigin == 500

\* the indices were the robot to start in the corner of the panels
OnPanels_corner(pos) ==
  /\ 0 <= pos[1] /\ pos[1] < PanelSize
  /\ 0 <= pos[2] /\ pos[2] < PanelSize

\* (x + 500) as usize and (y + 500) as usize are indices of panels and of
\* panels[..]; a negative sum casts to an index past every Vec
OnPanels(pos) ==
  /\ 0 <= pos[1] + PanelOrigin /\ pos[1] + PanelOrigin < PanelSize
  /\ 0 <= pos[2] + PanelOrigin /\ pos[2] + PanelOrigin < PanelSize

\* panels read as if no cell had been assigned
PanelAt_unseen(m, pos) == 0

\* panels[(x + 500)][(y + 500)] of a position on the panels; the model keeps
\* the cells that were assigned, every other cell holds the 0 of vec![0; ..]
PanelAt(m, pos) == IF pos \in DOMAIN m.panels THEN m.panels[pos] ELSE 0

\* the assignment of a panel that leaves no other panel assigned
PanelSet_wipes(panels, pos, value) == [q \in {pos} |-> value]

PanelSet(panels, pos, value) ==
  [q \in (DOMAIN panels) \cup {pos} |-> IF q = pos THEN value ELSE panels[q]]

\* Direction::next with left and right exchanged
direction_next_mirrored(direction, command) ==
  IF command = 0
    THEN CASE direction = "Up" -> "Right"
           [] direction = "Down" -> "Left"
           [] direction = "Left" -> "Up"
           [] direction = "Right" -> "Down"
    ELSE CASE direction = "Up" -> "Left"
           [] direction = "Down" -> "Right"
           [] direction = "Left" -> "Down"
           [] direction = "Right" -> "Up"

\* Direction::next
direction_next(direction, command) ==
  IF command = 0
    THEN CASE direction = "Up" -> "Left"
           [] direction = "Down" -> "Right"
           [] direction = "Left" -> "Down"
           [] direction = "Right" -> "Up"
    ELSE CASE direction = "Up" -> "Right"
           [] direction = "Down" -> "Left"
           [] direction = "Left" -> "Up"
           [] direction = "Right" -> "Down"

\* the match on self.direction that moves the position by one cell
move(position, direction) ==
  CASE direction = "Up" -> <<position[1], position[2] + 1>>
    [] direction = "Down" -> <<position[1], position[2] - 1>>
    [] direction = "Right" -> <<position[1] + 1, position[2]>>
    [] direction = "Left" -> <<position[1] - 1, position[2]>>

\* push_output of problem 11 that also counts the cells it moves to
push_output_robot_counts_moves(m, args) ==
  LET data_position == args[1]
  IN IF ~InBounds(m, data_position) THEN Panic(m, "index")
     ELSE LET value == m.memory[data_position]
          IN IF m.should_paint
               THEN LET inserted == [m EXCEPT !.output = @ \cup {m.position}]
                    IN IF ~OnPanels(m.position) THEN Panic(inserted, "index")
                       ELSE Outcome([inserted EXCEPT
                                       !.panels = PanelSet(@, m.position, value),
                                       !.input_signal = value,
                                       !.should_paint = FALSE,
                                       !.cmd_ptr = @ + 1], 0, <<>>)
             ELSE LET direction == direction_next(m.direction, value)
                      position == move(m.position, direction)
                      moved == [m EXCEPT !.direction = direction,
                                         !.position = position,
                                         !.output = @ \cup {position}]
                  IN IF ~OnPanels(position) THEN Panic(moved, "index")
                     ELSE Outcome([moved EXCEPT
                                     !.input_signal = PanelAt(m, position),
                                     !.should_paint = TRUE,
                                     !.cmd_ptr = @ + 1], 0, <<>>)

\* push_output of problem 11 that flips the flag only after a paint
push_output_robot_keeps_flag(m, args) ==
  LET data_position == args[1]
  IN IF ~InBounds(m, data_position) THEN Panic(m, "index")
     ELSE LET value == m.memory[data_position]
          IN IF m.should_paint
               THEN LET inserted == [m EXCEPT !.output = @ \cup {m.position}]
                    IN IF ~OnPanels(m.position) THEN Panic(inserted, "index")
                       ELSE Outcome([inserted EXCEPT
                                       !.panels = PanelSet(@, m.position, value),
                                       !.input_signal = value,
                                       !.should_paint = FALSE,
                                       !.cmd_ptr = @ + 1], 0, <<>>)
             ELSE LET direction == direction_next(m.direction, value)
                      position == move(m.position, direction)
                      moved == [m EXCEPT !.direction = direction,
                                         !.position = position]
                  IN IF ~OnPanels(position) THEN Panic(moved, "index")
                     ELSE Outcome([moved EXCEPT
                                     !.input_signal = PanelAt(m, position),
                                     !.cmd_ptr = @ + 1], 0, <<>>)

\* push_output of problem 11: paint, or turn and move
push_output_robot(m, args) ==
  LET data_position == args[1]
  IN IF ~InBounds(m, data_position) THEN Panic(m, "index")
     ELSE LET value == m.memory[data_position]
          IN IF m.should_paint
               THEN LET inserted == [m EXCEPT !.output = @ \cup {m.position}]
                    IN IF ~OnPanels(m.position) THEN Panic(inserted, "index")
                       ELSE Outcome([inserted EXCEPT
                                       !.panels = PanelSet(@, m.position, value),
                                       !.input_signal = value,
                                       !.should_paint = FALSE,
                                       !.cmd_ptr = @ + 1], 0, <<>>)
             ELSE LET direction == direction_next(m.direction, value)
                      position == move(m.position, direction)
                      moved == [m EXCEPT !.direction = direction,
                                         !.position = position]
                  IN IF ~OnPanels(position) THEN Panic(moved, "index")
                     ELSE Outcome([moved EXCEPT
                                     !.input_signal = PanelAt(m, position),
                                     !.should_paint = TRUE,
                                     !.cmd_ptr = @ + 1], 0, <<>>)

push_output(m, args, tx_open) ==
  IF Len(args) # 1 THEN NoMatch(m)
  ELSE IF HasChannels(m.kind) THEN push_output_channel(m, args, tx_open)
  ELSE IF m.kind = 5 THEN push_output_vec(m, args)
  ELSE push_output_robot(m, args)

\* the target of a taken jump is read only when the jump is taken
jump_if_true(m, args) ==
  IF Len(args) # 2 THEN NoMatch(m)
  ELSE LET should_jump_pos == args[1]
           instruction_position == args[2]
       IN IF ~InBounds(m, should_jump_pos) THEN Panic(m, "index")
          ELSE IF m.memory[should_jump_pos] # 0
            THEN IF ~InBounds(m, instruction_position) THEN Panic(m, "index")
                 ELSE Outcome([m EXCEPT !.cmd_ptr =
                                 AsUsize(m.memory[instruction_position])], 0, <<>>)
          ELSE Outcome([m EXCEPT !.cmd_ptr = @ + 2], 0, <<>>)

\* jump_if_false that jumps to the parameter's address, not to its content
jump_if_false_direct(m, args) ==
  IF Len(args) # 2 THEN NoMatch(m)
  ELSE LET jump_on_zero_pos == args[1]
           instruction_position == args[2]
       IN IF ~InBounds(m, jump_on_zero_pos) THEN Panic(m, "index")
          ELSE IF m.memory[jump_on_zero_pos] = 0
            THEN Outcome([m EXCEPT !.cmd_ptr = instruction_position], 0, <<>>)
          ELSE Outcome([m EXCEPT !.cmd_ptr = @ + 2], 0, <<>>)

jump_if_false(m, args) ==
  IF Len(args) # 2 THEN NoMatch(m)
  ELSE LET jump_on_zero_pos == args[1]
           instruction_position == args[2]
       IN IF ~InBounds(m, jump_on_zero_pos) THEN Panic(m, "index")
          ELSE IF m.memory[jump_on_zero_pos] = 0
            THEN IF ~InBounds(m, instruction_position) THEN Panic(m, "index")
                 ELSE Outcome([m EXCEPT !.cmd_ptr =
                                 AsUsize(m.memory[instruction_position])], 0, <<>>)
          ELSE Outcome([m EXCEPT !.cmd_ptr = @ + 2], 0, <<>>)

\* `b as isize` of a bool
BoolAsIsize(b) == IF b THEN 1 ELSE 0

\* less_than with <= for <
less_than_or_equal(m, args) ==
  IF Len(args) # 3 THEN NoMatch(m)
  ELSE LET a_pos == args[1]
           b_pos == args[2]
           output_pos == args[3]
       IN IF ~InBounds(m, a_pos) \/ ~InBounds(m, b_pos) THEN Panic(m, "index")
          ELSE IF ~InBounds(m, output_pos) THEN Panic(m, "index")
          ELSE Outcome([m EXCEPT !.memory[output_pos] =
                                     BoolAsIsize(m.memory[a_pos] <= m.memory[b_pos]),
                                 !.cmd_ptr = @ + 3], 0, <<>>)

\* less_than that wraps a destination beyond the end of memory around to
\* its start
less_than_wraps(m, args) ==
  IF Len(args) # 3 THEN NoMatch(m)
  ELSE LET a_pos == args[1]
           b_pos == args[2]
           output_pos == args[3] % MemLen(m)
       IN IF ~InBounds(m, a_pos) \/ ~InBounds(m, b_pos) THEN Panic(m, "index")
          ELSE Outcome([m EXCEPT !.memory[output_pos] =
                                     BoolAsIsize(m.memory[a_pos] < m.memory[b_pos]),
                                 !.cmd_ptr = @ + 3], 0, <<>>)

less_than(m, args) ==
  IF Len(args) # 3 THEN NoMatch(m)
  ELSE LET a_pos == args[1]
           b_pos == args[2]
           output_pos == args[3]
       IN IF ~InBounds(m, a_pos) \/ ~InBounds(m, b_pos) THEN Panic(m, "index")
          ELSE IF ~InBounds(m, output_pos) THEN Panic(m, "index")
          ELSE Outcome([m EXCEPT !.memory[output_pos] =
                                     BoolAsIsize(m.memory[a_pos] < m.memory[b_pos]),
                                 !.cmd_ptr = @ + 3], 0, <<>>)

\* equals that writes and returns None
equals_returns_none(m, args) ==
  IF Len(args) # 3 THEN NoMatch(m)
  ELSE LET a_pos == args[1]
           b_pos == args[2]
           output_pos == args[3]
       IN IF ~InBounds(m, a_pos) \/ ~InBounds(m, b_pos) THEN Panic(m, "index")
          ELSE IF ~InBounds(m, output_pos) THEN Panic(m, "index")
          ELSE Outcome([m EXCEPT !.memory[output_pos] =
                                     BoolAsIsize(m.memory[a_pos] = m.memory[b_pos]),
                                 !.cmd_ptr = @ + 3,
                                 !.status = "halted"], 0, <<>>)

equals(m, args) ==
  IF Len(args) # 3 THEN NoMatch(m)
  ELSE LET a_pos == args[1]
           b_pos == args[2]
           output_pos == args[3]
       IN IF ~InBounds(m, a_pos) \/ ~InBounds(m, b_pos) THEN Panic(m, "index")
          ELSE IF ~InBounds(m, output_pos) THEN Panic(m, "index")
          ELSE Outcome([m EXCEPT !.memory[output_pos] =
                                     BoolAsIsize(m.memory[a_pos] = m.memory[b_pos]),
                                 !.cmd_ptr = @ + 3], 0, <<>>)

\* mutate_rel_base with = for +=
mutate_rel_base_assign(m, args, oc) ==
  IF Len(args) # 1 THEN NoMatch(m)
  ELSE LET delta_pos == args[1]
       IN IF ~InBounds(m, delta_pos) THEN Panic(m, "index")
          ELSE Outcome([m EXCEPT !.rel_base = m.memory[delta_pos],
                                 !.cmd_ptr = @ + 1], 0, <<>>)

mutate_rel_base(m, args, oc) ==
  IF Len(args) # 1 THEN NoMatch(m)
  ELSE LET delta_pos == args[1]
       IN IF ~InBounds(m, delta_pos) THEN Panic(m, "index")
          ELSE LET delta == m.memory[delta_pos]
               IN IF oc /\ ~Fits(m.rel_base + delta) THEN Panic(m, "overflow")
                  ELSE Outcome([m EXCEPT !.rel_base = Wrap(@ + delta),
                                         !.cmd_ptr = @ + 1], 0, <<>>)

\* halt that returns Some(())
halt_returns_some(m) == Outcome(m, 0, <<>>)

\* halt returns None: the iteration ends, nothing is changed
halt(m) == Outcome([m EXCEPT !.status = "halted"], 0, <<>>)

\* get_command(opcode, args).apply()
get_command(m, opcode, args, rx, rx_open, tx_open, oc) ==
  CASE opcode = 1 -> add(m, args, oc)
    [] opcode = 2 -> mul(m, args, oc)
    [] opcode = 3 -> store(m, args, rx, rx_open)
    [] opcode = 4 -> push_output(m, args, tx_open)
    [] opcode = 5 -> jump_if_true(m, args)
    [] opcode = 6 -> jump_if_false(m, args)
    [] opcode = 7 -> less_than(m, args)
    [] opcode = 8 -> equals(m, args)
    [] opcode = 9 /\ HasRelative(m.kind) -> mutate_rel_base(m, args, oc)
    [] opcode = 99 -> halt(m)
    [] OTHER -> Panic(m, "unknown instruction")

\* execute_step: decode, slice, build_args, dispatch; rx is the content of the
\* input channel, rx_open whether a sender of it lives, tx_open whether the
\* receiver of the output channel lives, oc whether the build checks overflow
execute_step(m, rx, rx_open, tx_open, oc) ==
  IF ~InBounds(m, m.cmd_ptr) THEN Panic(m, "index")
  ELSE LET d == decode_instruction(m)
           fetched == [m EXCEPT !.cmd_ptr = d.cmd_ptr]
           modes == d.modes
           count == arg_count(m.kind, d.opcode)
       IN IF \E i \in 1..3 : modes[i] = "panic" THEN Panic(fetched, "unknown code")
          ELSE IF count < 0 THEN Panic(fetched, "unknown opcode")
          ELSE IF fetched.cmd_ptr + count > MemLen(m) THEN Panic(fetched, "index")
          ELSE LET mem_slice == get_current_memory_slice(fetched, d.opcode)
               IN IF oc /\ build_overflows(fetched, mem_slice, modes)
                    THEN Panic(fetched, "overflow")
                  ELSE get_command(fetched, d.opcode,
                                   build_args(fetched, mem_slice, modes),
                                   rx, rx_open, tx_open, oc)

(***************************************************************************)
(* Construction.  A machine record carries the fields of all four engines; *)
(* a field an engine does not have keeps its placeholder and is never read *)
(* by that engine's handlers.                                              *)
(***************************************************************************)
\* program.to_vec(): the words of a sequence as a memory indexed from 0
ToVec(program) == [a \in 0..(Len(program) - 1) |-> program[a + 1]]

Zeros(n) == [i \in 1..n |-> 0]

Blank(kind, program) ==
  [kind |-> kind, memory |-> ToVec(program), cmd_ptr |-> 0, rel_base |-> 0,
   phase_setting |-> <<>>, input_signal |-> 0, output |-> <<>>,
   position |-> <<0, 0>>, direction |-> "Up", should_paint |-> TRUE,
   panels |-> <<>>, status |-> "running"]

\* problem 5: IntcodeMachine::new(memory).set_input(x)
new_5(program, x) == [Blank(5, program) EXCEPT !.input_signal = x]

\* problem 7: IntcodeMachine::new(program, phase_setting, input_signal, output)
new_7(program, phase_setting) ==
  [Blank(7, program) EXCEPT !.phase_setting = <<phase_setting>>]

\* problem 9: IntcodeMachine::new(program, phase_setting, input_signal, output)
new_9(program, phase_setting) ==
  [Blank(9, program) EXCEPT !.phase_setting = <<phase_setting>>]

\* IntcodeMachine::new of problem 11 without the marked start cell
new_11_unmarked(program, input_signal) ==
  [Blank(11, program) EXCEPT !.input_signal = input_signal,
                             !.output = {},
                             !.panels = [q \in {<<0, 0>>} |-> 0]]

\* problem 11: IntcodeMachine::new(program, input_signal, HashSet::new())
new_11(program, input_signal) ==
  [Blank(11, program) EXCEPT !.input_signal = input_signal,
                             !.output = {},
                             !.panels = [q \in {<<0, 0>>} |-> 1]]

new(kind, program, value) ==
  CASE kind = 5 -> new_5(program, value)
    [] kind = 7 -> new_7(program, value)
    [] kind = 9 -> new_9(program, value)
    [] kind = 11 -> new_11(program, value)

(***************************************************************************)
(* The programs the machines are run on.                                   *)
(***************************************************************************)
\* zero cells the caller appends to a program (the source appends 100 or
\* 1000; the generated programs get ScratchLen)
ScratchLen == 2

\* steps a run is followed for
MaxSteps == 85

\* longest memory made of 99 only
MaxHalts == 4

\* most input instructions in a row
MaxInputs == 3

\* most output instructions in a row
MaxOutputs == 4

Word(opcode, c1, c2, c3) == opcode + (100 * c1) + (1000 * c2) + (10000 * c3)

\* parameter words: a negative one, zero, small ones, the largest word
Vals == {-1, 0, 1, 4, MaxWord}

\* the parameter words of the three-parameter instructions
Vals3(kind) == IF kind = 9 THEN {-1, 1, 4, MaxWord} ELSE {-1, 4, MaxWord}

\* the mode digits an engine knows
Digits(kind) == IF HasRelative(kind) THEN 0..2 ELSE 0..1

\* words with an unknown opcode, with a digit that is no mode, negative words
\* (-31515 as usize ends in 20101), and known opcodes with digits in the
\* positions of parameters they do not have
OddWords == {0, 10, 98, 100, 301, 3002, 30001, 399, 30099, 30004, 20099, 2104,
             21107, -1, -31515, -31517, 10099, 10004, 1104, 10105}

\* an instruction executed before the generated one
Prefixes(kind) == IF HasRelative(kind) THEN {<<>>, <<109, 2>>} ELSE {<<>>}

\* more of them, before a one-parameter instruction
Prefixes1(kind) ==
  IF HasRelative(kind)
    THEN {<<>>, <<109, 2>>, <<109, -1>>, <<109, MaxWord>>, <<109, MinWord>>}
    ELSE {<<>>}

Kinds == {5, 7, 9, 11}

\* memories that hold opcode 99 only
AllHalt == {[i \in 1..n |-> 99] : n \in 1..MaxHalts}

\* tests::copy_itself
Quine == <<109, 1, 204, -1, 1001, 100, 1, 100, 1008, 100, 16, 101, 1006, 101, 0, 99>>

QuineScratch == 100

(***************************************************************************)
(* One machine run by run(): the harness of problem 9's solve_1 and tests  *)
(* (a channel into the machine that holds what was sent before the run, a  *)
(* channel out of it whose receiver is read after the run), and the        *)
(* channel-less machines of problems 5 and 11.                             *)
(***************************************************************************)
VARIABLES
  computer,         \* the machine
  rx_computer,      \* values sent to the machine and not yet received
  rx_outer,         \* values the machine sent, in send order
  overflow_checks,  \* whether the build panics on arithmetic overflow
  steps,            \* calls of next() so far
  loaded,           \* what the run started from: memory, phase or input, channel
  prev,             \* <<>>, or the machine and the channels before the last step
  inputs,           \* input instructions completed so far
  delta_sum,        \* sum of the operands of the adjust-base instructions completed
  outputs,          \* output instructions completed so far
  signals,          \* the values they put out, in order, each with the
                    \* position of the robot (problem 11) as it was put out
  computers,        \* the stages of a pipeline of problem 7, in order
  queues,           \* the channels of a pipeline: queues[0] feeds stage 1,
                    \* queues[i] is what stage i sent and stage i + 1 (after
                    \* the last stage, the caller) has not yet received
  harness,          \* the function that runs the pipeline or the search
  puzzle            \* a puzzle that runs no machine: which, and how far it is

\* the variables of the run of one machine
machine_vars == <<computer, rx_computer, rx_outer, steps, loaded, prev, inputs,
                  delta_sum, outputs, signals>>

\* the variables of a pipeline and of the search over phase settings
pipeline_vars == <<computers, queues, harness>>

vars == <<machine_vars, overflow_checks, pipeline_vars, puzzle>>

\* no puzzle of problems 8 and 10 is being solved
NoPuzzle == puzzle = [problem |-> 0]

\* no pipeline: a machine is run on its own
NoPipeline ==
  /\ computers = <<>>
  /\ queues = <<>>
  /\ harness = [topology |-> "none"]

\* the machine is loaded with program followed by scratch zero cells; value
\* is its phase setting (its input, in problems 5 and 11) and rx what was
\* sent into its input channel before the run
Load(kind, program, scratch, value, rx) ==
  /\ computer = new(kind, program \o Zeros(scratch), value)
  /\ rx_computer = (IF HasChannels(kind) THEN rx ELSE <<>>)
  /\ loaded = [memory |-> ToVec(program \o Zeros(scratch)), value |-> value,
               rx |-> IF HasChannels(kind) THEN rx ELSE <<>>]

\* one generated instruction, after a prefix, before a 99
InitGenerated ==
  \E kind \in Kinds :
    \/ \E pre \in Prefixes(kind), op \in {1, 2, 7, 8},
          c \in Digits(kind) \X Digits(kind) \X Digits(kind),
          v \in Vals3(kind) \X Vals3(kind) \X Vals3(kind) :
         Load(kind, pre \o <<Word(op, c[1], c[2], c[3]), v[1], v[2], v[3], 99>>,
              ScratchLen, 5, <<6, 7>>)
    \/ \E pre \in Prefixes(kind), op \in {5, 6},
          c \in Digits(kind) \X Digits(kind), v \in Vals \X Vals :
         Load(kind, pre \o <<Word(op, c[1], c[2], 0), v[1], v[2], 99>>,
              ScratchLen, 5, <<6, 7>>)
    \/ \E pre \in Prefixes1(kind), op \in {3, 4, 9}, c \in Digits(kind), v \in Vals :
         Load(kind, pre \o <<Word(op, c, 0, 0), v, 99>>, ScratchLen, 5, <<6, 7>>)
    \/ \E w \in OddWords, v \in {0, 4} :
         Load(kind, <<w, v, v, v, 99>>, ScratchLen, 5, <<6, 7>>)

InitAllHalt ==
  \E kind \in Kinds, program \in AllHalt : Load(kind, program, 0, 5, <<6, 7>>)

InitQuine ==
  \E value \in {1, 2} : Load(9, Quine, QuineScratch, value, <<value>>)

\* input instructions in a row, then an output, on a channel of two values
InitInputs ==
  \E kind \in {7, 9} :
  \E n \in 1..MaxInputs, c \in Digits(kind), a \in {0, 8, 9},
     value \in {5, 6}, rx \in {<<6, 7>>, <<7, 5>>} :
    Load(kind,
         [i \in 1..(2 * n) |-> IF i % 2 = 1 THEN Word(3, c, 0, 0) ELSE a + (i \div 2)]
           \o <<4, a + 1, 99>>,
         ScratchLen + 2, value, rx)

\* tests::output_middle, for several immediates
InitEcho ==
  \E kind \in {7, 9}, v \in {MinWord, -1, 0, 1, 99, MaxWord} :
    Load(kind, <<104, v, 99>>, ScratchLen, 1, <<1>>)

\* tests::output_16_digits, for several factors
InitSquare ==
  \E kind \in {7, 9}, x \in {-182, -181, -3, 0, 1, 181, 182} :
    Load(kind, <<1102, x, x, 7, 4, 7, 99, 0>>, ScratchLen, 1, <<1>>)

\* a relative output below the smallest base: base + offset leaves the word
InitWrapped ==
  \E kind \in {9, 11}, a \in {1, 3} :
    Load(kind, <<109, MinWord, 204, MinWord + a, 99>>, ScratchLen, 1, <<1>>)

\* a robot program that paints the cell it stands on with 1 minus the colour
\* it reads there, turns as told by turn, and starts again
Repaint(turn) ==
  <<3, 17, 102, -1, 17, 17, 101, 1, 17, 17, 4, 17, 104, turn, 1105, 1, 0>>

\* a robot program that paints the cell it stands on, reads the camera, turns
\* as the value it read tells, and starts again
PaintRead(colour) == <<104, colour, 3, 9, 4, 9, 1105, 1, 0, 0>>

\* problem 11, entered by solve_1 (input 0) or solve_2 (input 1), on programs
\* of several outputs: up to MaxOutputs immediate outputs in a row, an
\* endless loop of two, an endless loop that reads before it paints and one
\* that reads between a colour and a turn
InitRobot ==
  \E test_input \in {0, 1} :
    \/ \E n \in 1..MaxOutputs, v \in [1..MaxOutputs -> {0, 1, 2}] :
         Load(11, [i \in 1..(2 * n) |-> IF i % 2 = 1 THEN 104 ELSE v[i \div 2]] \o <<99>>,
              ScratchLen, test_input, <<>>)
    \/ \E v \in {0, 1, 2} \X {0, 1, 2} :
         Load(11, <<104, v[1], 104, v[2], 1105, 1, 0>>, ScratchLen, test_input, <<>>)
    \/ \E turn \in {0, 1, 2} :
         Load(11, Repaint(turn), ScratchLen, test_input, <<>>)
    \/ \E colour \in {0, 1, 2} :
         Load(11, PaintRead(colour), ScratchLen, test_input, <<>>)

\* a program that ends inside an instruction: the opcode word and fewer
\* parameter words than the opcode takes, no scratch cells
InitTruncated ==
  \E kind \in Kinds, op \in {1, 3, 4, 5, 8}, k \in 0..2 :
    /\ k < arg_count(kind, op)
    /\ Load(kind, <<1101, 1, 1, 3>> \o <<Word(op, 1, 1, 1)>> \o [i \in 1..k |-> 0],
            0, 5, <<6, 7>>)

Init ==
  /\ \/ InitGenerated
     \/ InitTruncated
     \/ InitAllHalt
     \/ InitQuine
     \/ InitInputs
     \/ InitEcho
     \/ InitSquare
     \/ InitWrapped
     \/ InitRobot
  /\ rx_outer = <<>>
  /\ overflow_checks \in BOOLEAN
  /\ steps = 0
  /\ prev = <<>>
  /\ inputs = 0
  /\ delta_sum = 0
  /\ outputs = 0
  /\ signals = <<>>
  /\ NoPipeline
  /\ NoPuzzle

\* the outcome of the next call of next(); tx_outer and rx_outer live until
\* the run is over
Result == execute_step(computer, rx_computer, TRUE, TRUE, overflow_checks)

\* the opcode a fetch at the pointer decodes, -1 when the fetch itself panics
Fetched(m) ==
  IF ~InBounds(m, m.cmd_ptr) THEN -1
  ELSE LET d == decode_instruction(m)
       IN IF \E i \in 1..3 : d.modes[i] = "panic" THEN -1
          ELSE IF arg_count(m.kind, d.opcode) < 0 THEN -1
          ELSE IF d.cmd_ptr + arg_count(m.kind, d.opcode) > MemLen(m) THEN -1
          ELSE d.opcode

\* the raw word of parameter i (1, 2, 3) of the instruction at the pointer
Raw(m, i) == m.memory[m.cmd_ptr + i]

\* the digit of parameter i in the instruction word at the pointer
Digit(m, i) == (Low5(m.memory[m.cmd_ptr]) \div Pow10(i + 1)) % 10

\* the address parameter i names, by the addressing rules of the instruction
\* set: the parameter (position), the parameter's own cell (immediate), the
\* relative base plus the parameter (relative)
Address(m, i) ==
  CASE Digit(m, i) = 0 -> Raw(m, i)
    [] Digit(m, i) = 1 -> m.cmd_ptr + i
    [] Digit(m, i) = 2 -> m.rel_base + Raw(m, i)

\* the value of read parameter i, when its address is a cell of memory
Operand(m, i) == m.memory[Address(m, i)]

\* the addresses build_args hands to the handler of the instruction at the
\* pointer
StepArgs(m) ==
  LET d == decode_instruction(m)
      fetched == [m EXCEPT !.cmd_ptr = d.cmd_ptr]
  IN build_args(fetched, get_current_memory_slice(fetched, d.opcode), d.modes)

\* steps of a robot that is followed to the edge of its panels
MaxWalk == 2600

\* the steps the run at hand is followed for
StepLimit == IF harness.topology = "walk" THEN MaxWalk ELSE MaxSteps

\* Iterator::next, called by run() while it returns Some
next ==
  /\ computer.status = "running"
  /\ steps < StepLimit
  /\ ~Result.blocked
  /\ computer' = Result.m
  /\ rx_computer' = SubSeq(rx_computer, Result.recv + 1, Len(rx_computer))
  /\ rx_outer' = rx_outer \o Result.send
  /\ steps' = steps + 1
  /\ prev' = <<[computer |-> computer, rx_computer |-> rx_computer,
                rx_outer |-> rx_outer]>>
  /\ inputs' = (IF Fetched(computer) = 3 /\ Result.m.status = "running"
                  THEN inputs + 1 ELSE inputs)
  /\ delta_sum' = (IF Fetched(computer) = 9 /\ Result.m.status = "running"
                     THEN delta_sum + computer.memory[StepArgs(computer)[1]]
                     ELSE delta_sum)
  /\ outputs' = (IF Fetched(computer) = 4 /\ Result.m.status = "running"
                   THEN outputs + 1 ELSE outputs)
  /\ signals' = (IF Fetched(computer) = 4 /\ Result.m.status = "running"
                   THEN Append(signals, [value |-> computer.memory[StepArgs(computer)[1]],
                                         at |-> computer.position])
                   ELSE signals)
  /\ UNCHANGED <<overflow_checks, loaded, pipeline_vars, puzzle>>

Add ==
  /\ Fetched(computer) = 1
  /\ next

Mul ==
  /\ Fetched(computer) = 2
  /\ next

Store ==
  /\ Fetched(computer) = 3
  /\ next

PushOutput ==
  /\ Fetched(computer) = 4
  /\ next

JumpIfTrue ==
  /\ Fetched(computer) = 5
  /\ next

JumpIfFalse ==
  /\ Fetched(computer) = 6
  /\ next

LessThan ==
  /\ Fetched(computer) = 7
  /\ next

Equals ==
  /\ Fetched(computer) = 8
  /\ next

MutateRelBase ==
  /\ Fetched(computer) = 9
  /\ next

Halt ==
  /\ Fetched(computer) = 99
  /\ next

\* the fetch panics: no such cell, no such mode, no such opcode
FetchPanic ==
  /\ Fetched(computer) = -1
  /\ next

Next ==
  \/ Add
  \/ Mul
  \/ Store
  \/ PushOutput
  \/ JumpIfTrue
  \/ JumpIfFalse
  \/ LessThan
  \/ Equals
  \/ MutateRelBase
  \/ Halt
  \/ FetchPanic

Spec == Init /\ [][Next]_vars

\* a robot program that paints 1, turns left `lefts` times, and then for ever
\* turns `turn` and the other way in alternation: a staircase to one edge of
\* the panels
Staircase(lefts, turn) ==
  [i \in 1..(4 * lefts) |-> IF i % 4 = 1 \/ i % 4 = 3 THEN 104
                            ELSE IF i % 4 = 2 THEN 1 ELSE 0]
    \o <<104, 1, 104, turn, 104, 1, 104, 1 - turn, 1105, 1, 4 * lefts>>

\* the staircases that lead to the top, the right, the left and the bottom
\* edge of the panels
Staircases == {Staircase(0, 0), Staircase(0, 1), Staircase(1, 0), Staircase(2, 0)}

\* solve_1 in a build with overflow checks or solve_2 in one without, on a
\* staircase, followed until the robot leaves the panels
InitWalk ==
  /\ \E program \in Staircases, test_input \in {0, 1} :
       /\ Load(11, program, 0, test_input, <<>>)
       /\ overflow_checks = (test_input = 0)
  /\ rx_outer = <<>>
  /\ steps = 0
  /\ prev = <<>>
  /\ inputs = 0
  /\ delta_sum = 0
  /\ outputs = 0
  /\ signals = <<>>
  /\ computers = <<>>
  /\ queues = <<>>
  /\ harness = [topology |-> "walk"]
  /\ NoPuzzle

NextWalk ==
  \/ PushOutput
  \/ JumpIfTrue

SpecWalk == InitWalk /\ [][NextWalk]_vars

(***************************************************************************)
(* The pipelines of problem 7.  Every stage is a problem-7 machine on the  *)
(* same program; stage i receives from queues[i - 1] and sends to          *)
(* queues[i].  A machine that is no longer running has been dropped, and   *)
(* with it its Receiver and its Sender.                                    *)
(***************************************************************************)
\* most stages of a pipeline (the source runs 5)
MaxStages == 3

\* reads the phase setting, reads one value, emits it, halts
PassThrough == <<3, 7, 3, 8, 4, 8, 99, 0, 0>>

\* emits the value it read, then its phase setting
EmitTwice == <<3, 9, 3, 10, 4, 10, 4, 9, 99, 0, 0>>

\* emits the value it read plus its phase setting
AddPhase == <<3, 11, 3, 12, 1, 11, 12, 12, 4, 12, 99, 0, 0>>

\* emits twice the value it read plus its phase setting
DoublePlusPhase ==
  <<3, 15, 3, 16, 1002, 16, 2, 16, 1, 16, 15, 16, 4, 16, 99, 0, 0>>

\* emits the value it read, then reads another value
ReadAgain == <<3, 9, 3, 10, 4, 10, 3, 10, 99, 0, 0>>

\* reads its phase setting and halts
EmitNothing == <<3, 3, 99, 0>>

\* emits the value it read, then meets an unknown opcode
FaultAfterEmit == <<3, 7, 3, 8, 4, 8, 98, 0, 0>>

\* meets an unknown opcode at once
FaultAtOnce == <<98>>

StagePrograms ==
  {PassThrough, EmitTwice, AddPhase, DoublePlusPhase, ReadAgain, EmitNothing,
   FaultAfterEmit, FaultAtOnce}

\* phase settings of n stages
Settings(n) == [1..n -> 0..(n - 1)]

\* the machine variables while a pipeline runs
NoMachine ==
  /\ computer = Blank(7, <<99>>)
  /\ rx_computer = <<>>
  /\ rx_outer = <<>>
  /\ steps = 0
  /\ loaded = [memory |-> ToVec(<<99>>), value |-> 0, rx |-> <<>>]
  /\ prev = <<>>
  /\ inputs = 0
  /\ delta_sum = 0
  /\ outputs = 0
  /\ signals = <<>>

\* a machine that takes no further step
Dropped(m) == m.status # "running"

\* the channels of n stages with the seed sent twice
SeededQueues_twice(n) == [i \in 0..n |-> IF i = 0 THEN <<0, 0>> ELSE <<>>]

\* the channels of n stages after tx.send(0)
SeededQueues(n) == [i \in 0..n |-> IF i = 0 THEN <<0>> ELSE <<>>]

\* a channel that keeps the values received from it
Rest_keeps(queue, recv) == queue

\* what remains of a queue after recv values were received from it
Rest(queue, recv) == SubSeq(queue, recv + 1, Len(queue))

\* a stage program that emits its input and its phase setting plus 7, and
\* with a phase setting other than 0 goes on to read and emit a second input
ReadMore ==
  <<3, 24, 3, 25, 4, 25, 1001, 24, 7, 26, 4, 26, 1005, 24, 16, 99,
    3, 27, 4, 27, 99, 0, 0, 0, 0, 0, 0, 0>>

\* emits the value it read and halts, or with phase setting 0 reads two more
\* values first
ReadOn ==
  <<3, 16, 3, 17, 4, 17, 1006, 16, 10, 99, 3, 17, 3, 17, 99, 0, 0, 0>>

\* the programs the pipelines are run on
PipelinePrograms == StagePrograms \cup {ReadMore, ReadOn}

\* what the step of machine m with the given outcome received: the value its
\* input instruction stored, if it was one that returned
Received(m, outcome) ==
  IF Fetched(m) = 3 /\ outcome.m.status = "running"
    THEN <<outcome.m.memory[StepArgs(m)[1]]>>
  ELSE <<>>

\* no stage has received or sent anything
NothingYet(n) == [i \in 1..n |-> <<>>]

\* get_output up to the first run(): the seed is sent and the first stage made
InitChain ==
  /\ NoMachine
  /\ NoPuzzle
  /\ overflow_checks \in BOOLEAN
  /\ \E program \in PipelinePrograms, n \in 1..MaxStages :
       \E phase_settings \in Settings(n) :
         /\ computers = <<new_7(program, phase_settings[1])>>
         /\ queues = SeededQueues(n)
         /\ harness = [topology |-> "chain", program |-> program,
                       phase_settings |-> phase_settings, pc |-> "running",
                       result |-> 0, emitted |-> <<>>,
                       received |-> NothingYet(n), sent |-> NothingYet(n)]

\* the outcome of the next step of the stage that runs when the sender of
\* every channel is kept
ChainResult_kept ==
  LET stage == Len(computers)
  IN execute_step(computers[stage], queues[stage - 1], TRUE, TRUE,
                  overflow_checks)

\* the outcome of the next step of the stage that runs: the sender of the
\* first channel lives in get_output, the sender of any other was dropped
\* with the stage before; the receiver of its output is held by the fold
ChainResult ==
  LET stage == Len(computers)
  IN execute_step(computers[stage], queues[stage - 1], stage = 1, TRUE,
                  overflow_checks)

\* computer.run(), one step: a panic of the stage is a panic of get_output
ChainStep ==
  LET stage == Len(computers)
  IN /\ harness.topology = "chain"
     /\ harness.pc = "running"
     /\ computers[stage].status = "running"
     /\ ~ChainResult.blocked
     /\ computers' = [computers EXCEPT ![stage] = ChainResult.m]
     /\ queues' = [queues EXCEPT ![stage - 1] = Rest(@, ChainResult.recv),
                                 ![stage] = @ \o ChainResult.send]
     /\ harness' = [harness EXCEPT
                      !.pc = IF ChainResult.m.status \in {"running", "halted"}
                               THEN @ ELSE "panicked",
                      !.emitted = IF stage = Len(harness.phase_settings)
                                    THEN @ \o ChainResult.send ELSE @,
                      !.received[stage] =
                         @ \o Received(computers[stage], ChainResult),
                      !.sent[stage] = @ \o ChainResult.send]
     /\ UNCHANGED <<machine_vars, overflow_checks, puzzle>>

\* the fold goes on: the stage that ran is dropped, the next one is made on
\* the receiver the closure returned
ChainNextStage ==
  LET stage == Len(computers)
  IN /\ harness.topology = "chain"
     /\ harness.pc = "running"
     /\ computers[stage].status = "halted"
     /\ stage < Len(harness.phase_settings)
     /\ computers' = Append(computers,
                            new_7(harness.program, harness.phase_settings[stage + 1]))
     /\ UNCHANGED <<queues, harness, machine_vars, overflow_checks, puzzle>>

\* .recv().unwrap() on the receiver of the last stage, whose sender is gone
ChainReturn ==
  LET stage == Len(computers)
  IN /\ harness.topology = "chain"
     /\ harness.pc = "running"
     /\ computers[stage].status = "halted"
     /\ stage = Len(harness.phase_settings)
     /\ IF queues[stage] # <<>>
          THEN /\ harness' = [harness EXCEPT !.pc = "returned",
                                             !.result = Head(queues[stage])]
               /\ queues' = [queues EXCEPT ![stage] = Tail(@)]
          ELSE /\ harness' = [harness EXCEPT !.pc = "panicked"]
               /\ UNCHANGED queues
     /\ UNCHANGED <<computers, machine_vars, overflow_checks, puzzle>>

NextChain ==
  \/ ChainStep
  \/ ChainNextStage
  \/ ChainReturn

SpecChain == InitChain /\ [][NextChain]_vars

\* the longest ring of stages
MaxRing == 2

\* get_output_with_feedback_loop up to the forwarding loop: the stages are
\* made, the seed is sent, every stage is handed to a thread of its own
InitRing ==
  /\ NoMachine
  /\ NoPuzzle
  /\ overflow_checks \in BOOLEAN
  /\ \E program \in PipelinePrograms, n \in 1..MaxRing :
       \E phase_settings \in Settings(n) :
         /\ computers = [i \in 1..n |-> new_7(program, phase_settings[i])]
         /\ queues = SeededQueues(n)
         /\ harness = [topology |-> "ring", program |-> program,
                       phase_settings |-> phase_settings, pc |-> "forwarding",
                       result |-> 0, emitted |-> <<>>, forwarded |-> 0,
                       last |-> <<>>, status_at_return |-> <<>>,
                       received |-> NothingYet(n), sent |-> NothingYet(n),
                       forwarded_to_first |-> <<>>]

\* no sender is taken to live: recv() on an empty channel fails at once
\* instead of waiting
RingSenderLives_never(i) == FALSE

\* a sender of the channel stage i receives from lives: the stage before,
\* and for the first stage the tx of the function
RingSenderLives(i) ==
  IF i = 1 THEN harness.pc = "forwarding" ELSE ~Dropped(computers[i - 1])

\* the receiver of the channel stage i sends on lives: the stage after, and
\* for the last stage the output of the function
RingReceiverLives(i) ==
  IF i = Len(computers) THEN harness.pc = "forwarding"
  ELSE ~Dropped(computers[i + 1])

\* the outcome of the next step of stage i
RingResult(i) ==
  execute_step(computers[i], queues[i - 1], RingSenderLives(i),
               RingReceiverLives(i), overflow_checks)

\* computer.run() of stage i, one step, with one memory shared by all the
\* stages
RingStep_shared ==
  \E i \in 1..Len(computers) :
    /\ harness.topology = "ring"
    /\ computers[i].status = "running"
    /\ ~RingResult(i).blocked
    /\ computers' = [j \in 1..Len(computers) |->
                       IF j = i THEN RingResult(i).m
                       ELSE [computers[j] EXCEPT !.memory = RingResult(i).m.memory]]
    /\ queues' = [queues EXCEPT ![i - 1] = Rest(@, RingResult(i).recv),
                                ![i] = @ \o RingResult(i).send]
    /\ harness' = [harness EXCEPT
                     !.emitted = IF i = Len(computers)
                                   THEN @ \o RingResult(i).send ELSE @,
                     !.received[i] = @ \o Received(computers[i], RingResult(i)),
                     !.sent[i] = @ \o RingResult(i).send,
                     !.last = <<[stage |-> i, computer |-> computers[i],
                                 queues |-> queues,
                                 rx_open |-> RingSenderLives(i),
                                 tx_open |-> RingReceiverLives(i)]>>]
    /\ UNCHANGED <<machine_vars, overflow_checks, puzzle>>

\* the thread of stage i: computer.run(), one step
RingStep ==
  \E i \in 1..Len(computers) :
    /\ harness.topology = "ring"
    /\ computers[i].status = "running"
    /\ ~RingResult(i).blocked
    /\ computers' = [computers EXCEPT ![i] = RingResult(i).m]
    /\ queues' = [queues EXCEPT ![i - 1] = Rest(@, RingResult(i).recv),
                                ![i] = @ \o RingResult(i).send]
    /\ harness' = [harness EXCEPT
                     !.emitted = IF i = Len(computers)
                                   THEN @ \o RingResult(i).send ELSE @,
                     !.received[i] = @ \o Received(computers[i], RingResult(i)),
                     !.sent[i] = @ \o RingResult(i).send,
                     !.last = <<[stage |-> i, computer |-> computers[i],
                                 queues |-> queues,
                                 rx_open |-> RingSenderLives(i),
                                 tx_open |-> RingReceiverLives(i)]>>]
    /\ UNCHANGED <<machine_vars, overflow_checks, puzzle>>

\* the forwarding loop, one value: tx.send(value).unwrap_or(()); value
MainForward ==
  LET n == Len(computers)
      value == Head(queues[n])
  IN /\ harness.topology = "ring"
     /\ harness.pc = "forwarding"
     /\ queues[n] # <<>>
     /\ queues' = [i \in 0..n |->
                     CASE i = 0 /\ n # 0 ->
                            (IF Dropped(computers[1]) THEN queues[0]
                             ELSE Append(queues[0], value))
                       [] i = n -> Tail(queues[n])
                       [] OTHER -> queues[i]]
     /\ harness' = [harness EXCEPT
                      !.result = value,
                      !.forwarded = @ + 1,
                      !.forwarded_to_first =
                         IF Dropped(computers[1]) THEN @ ELSE Append(@, value),
                      !.last = <<>>]
     /\ UNCHANGED <<computers, machine_vars, overflow_checks, puzzle>>

\* the forwarding loop ends: the last stage's sender is gone and nothing is
\* left to receive; the fold's value is returned, tx and output are dropped
MainReturn ==
  LET n == Len(computers)
  IN /\ harness.topology = "ring"
     /\ harness.pc = "forwarding"
     /\ queues[n] = <<>>
     /\ Dropped(computers[n])
     /\ harness' = [harness EXCEPT
                      !.pc = "returned",
                      !.last = <<>>,
                      !.status_at_return = <<[i \in 1..n |-> computers[i].status]>>]
     /\ UNCHANGED <<computers, queues, machine_vars, overflow_checks, puzzle>>

NextRing ==
  \/ RingStep
  \/ MainForward
  \/ MainReturn

SpecRing == InitRing /\ [][NextRing]_vars

\* get_output and get_output_with_feedback_loop together: either pipeline of
\* problem 7 on any of the stage programs
InitAmplifiers == InitChain \/ InitRing

NextAmplifiers ==
  \/ NextChain
  \/ NextRing

SpecAmplifiers == InitAmplifiers /\ [][NextAmplifiers]_vars

\* generate_permutations that yields only the order it was given
generate_permutations_identity(stack, queue, output) ==
  [stack |-> stack, queue |-> queue, output |-> Append(output, stack \o queue)]

RECURSIVE generate_permutations(_, _, _)
RECURSIVE permutations_fold(_, _, _, _)

\* the fold of generate_permutations were it to put the element back at the
\* front of the queue
permutations_fold_front(k, stack, queue, output) ==
  IF k = 0 THEN [stack |-> stack, queue |-> queue, output |-> output]
  ELSE LET r == generate_permutations(Append(stack, Head(queue)), Tail(queue), output)
       IN permutations_fold(k - 1,
                            SubSeq(r.stack, 1, Len(r.stack) - 1),
                            <<r.stack[Len(r.stack)]>> \o r.queue,
                            r.output)

\* generate_permutations: stack and queue are borrowed mutably, so their
\* contents after the call are part of what it yields
generate_permutations(stack, queue, output) ==
  IF queue = <<>>
    THEN [stack |-> stack, queue |-> queue, output |-> Append(output, stack)]
  ELSE permutations_fold(Len(queue), stack, queue, output)

\* the last k rounds of (0..queue.len()).fold(output, ..): pop_front onto the
\* stack, recurse, pop the stack onto the back of the queue
permutations_fold(k, stack, queue, output) ==
  IF k = 0 THEN [stack |-> stack, queue |-> queue, output |-> output]
  ELSE LET r == generate_permutations(Append(stack, Head(queue)), Tail(queue), output)
       IN permutations_fold(k - 1,
                            SubSeq(r.stack, 1, Len(r.stack) - 1),
                            Append(r.queue, r.stack[Len(r.stack)]),
                            r.output)

\* (lo..=hi).collect()
RangeInclusive(lo, hi) == [i \in 1..((hi - lo) + 1) |-> (lo + i) - 1]

RECURSIVE run(_, _, _, _, _, _)

\* run(): steps until the engine halts or panics, or waits for ever on its
\* input; sent is what it has sent so far
run(m, rx, rx_open, tx_open, oc, sent) ==
  IF m.status # "running"
    THEN [m |-> m, rx |-> rx, sent |-> sent, blocked |-> FALSE]
  ELSE LET r == execute_step(m, rx, rx_open, tx_open, oc)
       IN IF r.blocked
            THEN [m |-> m, rx |-> rx, sent |-> sent, blocked |-> TRUE]
          ELSE run(r.m, Rest(rx, r.recv), rx_open, tx_open, oc, sent \o r.send)

\* how a call ended
Returned(value) == [status |-> "returned", value |-> value]

Panicked == [status |-> "panicked", value |-> 0]

Hung == [status |-> "hung", value |-> 0]

RECURSIVE get_output_fold(_, _, _, _, _)

\* the fold of get_output from stage k on, output the channel the stage reads
get_output_fold(program, phase_settings, k, output, oc) ==
  IF k > Len(phase_settings)
    THEN IF output = <<>> THEN Panicked ELSE Returned(Head(output))
  ELSE LET r == run(new_7(program, phase_settings[k]), output, k = 1, TRUE, oc, <<>>)
       IN IF r.blocked THEN Hung
          ELSE IF r.m.status # "halted" THEN Panicked
          ELSE get_output_fold(program, phase_settings, k + 1, r.sent, oc)

\* get_output
get_output(program, phase_settings, oc) ==
  get_output_fold(program, phase_settings, 1, <<0>>, oc)

\* the thread of stage i runs for as long as it can
RingRun(ring, i, oc) ==
  LET n == Len(ring.computers)
      r == run(ring.computers[i], ring.queues[i - 1],
               IF i = 1 THEN TRUE ELSE ~Dropped(ring.computers[i - 1]),
               IF i = n THEN TRUE ELSE ~Dropped(ring.computers[i + 1]),
               oc, <<>>)
  IN [ring EXCEPT !.computers[i] = r.m,
                  !.queues[i - 1] = r.rx,
                  !.queues[i] = @ \o r.sent]

RECURSIVE RingSweep(_, _, _)

\* the threads of stages i and up run in turn
RingSweep(ring, i, oc) ==
  IF i > Len(ring.computers) THEN ring
  ELSE RingSweep(RingRun(ring, i, oc), i + 1, oc)

\* the forwarding loop takes everything the last stage has sent
RingForward(ring) ==
  LET n == Len(ring.computers)
      values == ring.queues[n]
  IN IF values = <<>> THEN ring
     ELSE [computers |-> ring.computers,
           queues |-> [i \in 0..n |->
                         CASE i = 0 /\ n # 0 ->
                                (IF Dropped(ring.computers[1]) THEN ring.queues[0]
                                 ELSE ring.queues[0] \o values)
                           [] i = n -> <<>>
                           [] OTHER -> ring.queues[i]],
           result |-> values[Len(values)]]

RECURSIVE RingLoop(_, _)

\* the stages and the forwarding loop take turns until none can go on
RingLoop(ring, oc) ==
  LET Settled(after) ==
        IF /\ \A i \in 1..Len(ring.computers) : after.computers[i] = ring.computers[i]
           /\ \A i \in 0..Len(ring.computers) : after.queues[i] = ring.queues[i]
           /\ after.result = ring.result
          THEN ring
        ELSE RingLoop(after, oc)
  IN CHOOSE settled \in {Settled(after) : after \in {RingForward(RingSweep(ring, 1, oc))}} :
       TRUE

\* get_output_with_feedback_loop, its threads scheduled in turn
get_output_with_feedback_loop(program, phase_settings, oc) ==
  LET n == Len(phase_settings)
      ring == RingLoop([computers |-> [i \in 1..n |-> new_7(program, phase_settings[i])],
                        queues |-> SeededQueues(n),
                        result |-> 0], oc)
  IN IF Dropped(ring.computers[n]) THEN Returned(ring.result) ELSE Hung

\* the stage programs the puzzle is solved for: each stage emits one value
\* computed from its phase setting and its input
SolvePrograms == {AddPhase, DoublePlusPhase}

\* the call solve_1 and solve_2 map over the permutations
Amplify(solver, program, settings, oc) ==
  IF solver = "solve_1" THEN get_output(program, settings, oc)
  ELSE get_output_with_feedback_loop(program, settings, oc)

\* the phase settings solve_1 and solve_2 permute
Phases(solver) ==
  IF solver = "solve_1" THEN RangeInclusive(0, 4) ELSE RangeInclusive(5, 9)

\* solve_1 or solve_2 is entered
InitSolve ==
  /\ NoMachine
  /\ NoPuzzle
  /\ overflow_checks \in BOOLEAN
  /\ computers = <<>>
  /\ queues = <<>>
  /\ \E solver \in {"solve_1", "solve_2"}, program \in SolvePrograms :
       harness = [topology |-> "solve", solver |-> solver, program |-> program,
                  pc |-> "generating", permutations |-> <<>>,
                  results |-> <<>>, result |-> 0]

\* generate_permutations(&mut Vec::new(), &mut (lo..=hi).collect(), Vec::new())
SolveGenerate ==
  /\ harness.topology = "solve"
  /\ harness.pc = "generating"
  /\ harness' = [harness EXCEPT
                   !.pc = "mapping",
                   !.permutations =
                     generate_permutations(<<>>, Phases(harness.solver), <<>>).output]
  /\ UNCHANGED <<computers, queues, machine_vars, overflow_checks, puzzle>>

\* .map(|settings| ..): the call for the next permutation
SolveCall ==
  /\ harness.topology = "solve"
  /\ harness.pc = "mapping"
  /\ Len(harness.results) < Len(harness.permutations)
  /\ LET settings == harness.permutations[Len(harness.results) + 1]
         call == Amplify(harness.solver, harness.program, settings, overflow_checks)
     IN harness' = IF call.status = "returned"
                     THEN [harness EXCEPT !.results = Append(@, call.value)]
                   ELSE [harness EXCEPT !.pc = call.status]
  /\ UNCHANGED <<computers, queues, machine_vars, overflow_checks, puzzle>>

\* Iterator::max: the greatest of the values, None when there is none
IteratorMax(values) ==
  IF values = <<>> THEN <<>>
  ELSE <<CHOOSE v \in {values[k] : k \in 1..Len(values)} :
           \A k \in 1..Len(values) : values[k] <= v>>

\* .max().unwrap()
SolveMax ==
  /\ harness.topology = "solve"
  /\ harness.pc = "mapping"
  /\ Len(harness.results) = Len(harness.permutations)
  /\ harness' = IF IteratorMax(harness.results) = <<>>
                  THEN [harness EXCEPT !.pc = "panicked"]
                ELSE [harness EXCEPT !.pc = "returned",
                                     !.result = IteratorMax(harness.results)[1]]
  /\ UNCHANGED <<computers, queues, machine_vars, overflow_checks, puzzle>>

NextSolve ==
  \/ SolveGenerate
  \/ SolveCall
  \/ SolveMax

SpecSolve == InitSolve /\ [][NextSolve]_vars

(***************************************************************************)
(* Problem 8: the layers of an image and their rendering.                  *)
(***************************************************************************)
\* the most pixels of an image's data, and its greatest width and height
MaxPixels == 5

MaxSide == 2

\* the values of the pixels: 2 is transparent
PixelValues == {0, 1, 2}

\* the sequences over a set of at most n elements
SeqsUpTo(set, n) == UNION {[1..k -> set] : k \in 0..n}

RECURSIVE chunks(_, _)

\* slice::chunks of a positive size: the last chunk may be shorter
chunks(data, size) ==
  IF Len(data) <= size
    THEN (IF data = <<>> THEN <<>> ELSE <<data>>)
  ELSE <<SubSeq(data, 1, size)>> \o chunks(SubSeq(data, size + 1, Len(data)), size)

\* get_layers: the data of the layers, in order
get_layers(data, width, height) == chunks(data, width * height)

\* the fold's closure of get_image that keeps the pixel of the later layer
flatten_keeps_later(image, layer) ==
  IF \E i \in 1..Len(image) : image[i] = 2 /\ i > Len(layer)
    THEN [panicked |-> TRUE, image |-> image]
  ELSE [panicked |-> FALSE,
        image |-> [i \in 1..Len(image) |->
                     IF i <= Len(layer) /\ layer[i] # 2 THEN layer[i]
                     ELSE image[i]]]

\* the fold's closure of get_image: every pixel of the image that is 2 takes
\* the layer's pixel, an index panic when the layer has none
flatten(image, layer) ==
  IF \E i \in 1..Len(image) : image[i] = 2 /\ i > Len(layer)
    THEN [panicked |-> TRUE, image |-> image]
  ELSE [panicked |-> FALSE,
        image |-> [i \in 1..Len(image) |->
                     IF image[i] = 2 THEN layer[i] ELSE image[i]]]

\* the decimal digits as strings of one character
DigitChars == <<"0", "1", "2", "3", "4", "5", "6", "7", "8", "9">>

RECURSIVE to_string(_)

\* usize::to_string, a string being the sequence of its characters
to_string(x) ==
  IF x < 10 THEN <<DigitChars[x + 1]>>
  ELSE to_string(x \div 10) \o <<DigitChars[(x % 10) + 1]>>

RECURSIVE join(_, _)

\* join: the strings with the separator between each two
join(strings, separator) ==
  IF strings = <<>> THEN <<>>
  ELSE IF Len(strings) = 1 THEN strings[1]
  ELSE strings[1] \o separator \o join(Tail(strings), separator)

\* the rendering of get_image
render(raw_image, width) ==
  LET shown == [i \in 1..Len(raw_image) |->
                  IF to_string(raw_image[i]) = <<"1">> THEN <<"0">> ELSE <<" ">>]
      rows == chunks(shown, width)
  IN join([r \in 1..Len(rows) |-> join(rows[r], <<" ">>)], <<"\n">>)

\* solve_2 of problem 8 is entered with the digits of the input and the sides
\* of the image
InitImage ==
  /\ NoMachine
  /\ computers = <<>>
  /\ queues = <<>>
  /\ harness = [topology |-> "none"]
  /\ overflow_checks \in BOOLEAN
  /\ \E data \in SeqsUpTo(PixelValues, MaxPixels),
        width \in 0..MaxSide, height \in 0..MaxSide :
       puzzle = [problem |-> 8, pc |-> "get_layers", data |-> data,
                 width |-> width, height |-> height, layers |-> <<>>,
                 folded |-> 0, image |-> <<>>, rendered |-> <<>>]

\* get_layers(input, width, height); chunks panics on a size of 0
GetLayers ==
  /\ puzzle.problem = 8
  /\ puzzle.pc = "get_layers"
  /\ puzzle' = IF puzzle.width * puzzle.height = 0
                 THEN [puzzle EXCEPT !.pc = "panicked"]
               ELSE [puzzle EXCEPT
                       !.pc = "get_image",
                       !.layers = get_layers(puzzle.data, puzzle.width, puzzle.height)]
  /\ UNCHANGED <<machine_vars, overflow_checks, pipeline_vars>>

\* let image = layers[0].data.to_vec()
FirstLayer ==
  /\ puzzle.problem = 8
  /\ puzzle.pc = "get_image"
  /\ puzzle' = IF puzzle.layers = <<>>
                 THEN [puzzle EXCEPT !.pc = "panicked"]
               ELSE [puzzle EXCEPT !.pc = "fold", !.folded = 1,
                                   !.image = puzzle.layers[1]]
  /\ UNCHANGED <<machine_vars, overflow_checks, pipeline_vars>>

\* one round of layers.into_iter().skip(1).fold(image, ..)
FoldLayer ==
  /\ puzzle.problem = 8
  /\ puzzle.pc = "fold"
  /\ puzzle.folded < Len(puzzle.layers)
  /\ LET round == flatten(puzzle.image, puzzle.layers[puzzle.folded + 1])
     IN puzzle' = IF round.panicked
                    THEN [puzzle EXCEPT !.pc = "panicked"]
                  ELSE [puzzle EXCEPT !.folded = @ + 1, !.image = round.image]
  /\ UNCHANGED <<machine_vars, overflow_checks, pipeline_vars>>

\* the rendering of raw_image, returned
Render ==
  /\ puzzle.problem = 8
  /\ puzzle.pc = "fold"
  /\ puzzle.folded = Len(puzzle.layers)
  /\ puzzle' = [puzzle EXCEPT !.pc = "returned",
                              !.rendered = render(puzzle.image, puzzle.width)]
  /\ UNCHANGED <<machine_vars, overflow_checks, pipeline_vars>>

NextImage ==
  \/ GetLayers
  \/ FirstLayer
  \/ FoldLayer
  \/ Render

SpecImage == InitImage /\ [][NextImage]_vars

(***************************************************************************)
(* Problem 10: the line of sight between two points of a map.              *)
(***************************************************************************)
\* the most rows of a map; it has as many columns, or one fewer
MaxRows == 5

\* Point::norm_squared
norm_squared(p) == (p[1] * p[1]) + (p[2] * p[2])

\* order on two points, which compare by norm_squared
order_points(a, b) ==
  IF norm_squared(a) > norm_squared(b) THEN <<b, a>> ELSE <<a, b>>

\* order on two integers
order(a, b) == IF a > b THEN <<b, a>> ELSE <<a, b>>

\* the remainder and the quotient of isize: truncated towards zero
Rem(a, d) == IF a >= 0 THEN a % d ELSE -((-a) % d)

Quot(a, d) ==
  IF (a >= 0) = (d > 0) THEN Abs(a) \div Abs(d) ELSE -(Abs(a) \div Abs(d))

\* get_divisors_iter, as a set
get_divisors_iter(x) == {i \in 1..x : Rem(x, i) = 0}

\* gcd that takes the least common divisor
gcd_least(a, b) == 1

\* gcd: the greatest divisor of the lesser number's absolute value that
\* divides the greater number
gcd(a, b) ==
  LET lesser == order(a, b)[1]
      greater == order(a, b)[2]
      common == {d \in get_divisors_iter(Abs(lesser)) : Rem(greater, d) = 0}
  IN CHOOSE d \in common : \A e \in common : e <= d

\* get_slope: <<rise, run>>, run_ standing for the source's run
get_slope(a, b) ==
  IF a[1] = b[1] THEN <<IF a[2] > b[2] THEN -1 ELSE 1, 0>>
  ELSE IF a[2] = b[2] THEN <<0, IF a[1] > b[1] THEN -1 ELSE 1>>
  ELSE LET rise == b[2] - a[2]
           run_ == b[1] - a[1]
       IN <<Quot(rise, gcd(rise, run_)), Quot(run_, gcd(rise, run_))>>

\* map[x as usize][y as usize] is a cell of the map
OnMap(map, x, y) == 0 <= x /\ x < map.rows /\ 0 <= y /\ y < map.cols

RECURSIVE clear_path_loop(_, _, _, _, _, _, _)

\* the while loop of has_clear_path from the point (x, y) on; read holds the
\* cells of the map read so far
clear_path_loop(map, b, rise, run_, x, y, read) ==
  IF ~(norm_squared(<<x, y>>) < norm_squared(b))
    THEN [status |-> "returned", result |-> TRUE, read |-> read]
  ELSE IF ~OnMap(map, x, y)
    THEN [status |-> "panicked", result |-> FALSE, read |-> read \cup {<<x, y>>}]
  ELSE IF <<x, y>> \in map.asteroids
    THEN [status |-> "returned", result |-> FALSE, read |-> read \cup {<<x, y>>}]
  ELSE clear_path_loop(map, b, rise, run_, x + run_, y + rise, read \cup {<<x, y>>})

\* has_clear_path
has_clear_path(map, a, b) ==
  LET near == order_points(a, b)[1]
      far == order_points(a, b)[2]
      rise == get_slope(near, far)[1]
      run_ == get_slope(near, far)[2]
  IN clear_path_loop(map, far, rise, run_, near[1] + run_, near[2] + rise, {})

\* the cells of a map
Cells(rows, cols) == (0..(rows - 1)) \X (0..(cols - 1))

\* the maps followed: no asteroid, one asteroid, an asteroid in every cell,
\* an asteroid in every cell but one
Maps ==
  {[rows |-> rows, cols |-> cols, asteroids |-> asteroids] :
     rows \in {MaxRows}, cols \in {MaxRows - 1, MaxRows},
     asteroids \in {{}} \cup {{c} : c \in Cells(MaxRows, MaxRows)}
                        \cup {Cells(MaxRows, MaxRows) \ {c} : c \in Cells(MaxRows, MaxRows)}
                        \cup {Cells(MaxRows, MaxRows)}}

\* has_clear_path is about to be called on a map and two of its points
InitSight ==
  /\ NoMachine
  /\ computers = <<>>
  /\ queues = <<>>
  /\ harness = [topology |-> "none"]
  /\ overflow_checks \in BOOLEAN
  /\ \E map \in Maps :
       \E a \in Cells(map.rows, map.cols), b \in Cells(map.rows, map.cols) :
         /\ a # b
         /\ puzzle = [problem |-> 10, pc |-> "called",
                      map |-> [map EXCEPT !.asteroids = @ \cap Cells(map.rows, map.cols)],
                      a |-> a, b |-> b, result |-> FALSE, read |-> {}]

\* has_clear_path(map, a, b)
HasClearPath ==
  /\ puzzle.problem = 10
  /\ puzzle.pc = "called"
  /\ LET call == has_clear_path(puzzle.map, puzzle.a, puzzle.b)
     IN puzzle' = [puzzle EXCEPT !.pc = call.status, !.result = call.result,
                                 !.read = call.read]
  /\ UNCHANGED <<machine_vars, overflow_checks, pipeline_vars>>

NextSight == HasClearPath

SpecSight == InitSight /\ [][NextSight]_vars

(***************************************************************************)
(* The last step, for the properties that speak of one instruction.        *)
(***************************************************************************)
Stepped == prev # <<>>

Before == prev[1].computer

BeforeRx == prev[1].rx_computer

BeforeOut == prev[1].rx_outer

\* the opcode of the last step, -1 when its fetch panicked
Op == Fetched(Before)

\* the last handler returned Some(())
Completed == computer.status = "running"

\* the channels are as they were before the last step
NoIO == rx_computer = BeforeRx /\ rx_outer = BeforeOut

IsPrefix(s, t) == Len(s) <= Len(t) /\ s = SubSeq(t, 1, Len(s))

Loaded(program, scratch) == loaded.memory = ToVec(program \o Zeros(scratch))

(***************************************************************************)
(* C1                                                                      *)
(***************************************************************************)
QuineLoaded == computer.kind = 9 /\ Loaded(Quine, QuineScratch)

\* C1: run on the self-copying program followed by 100 zero cells, the
\* problem-9 engine sends the 16 program words in order and nothing else, and
\* the run ends, by executing opcode 99, within 5 steps of each word sent.
C1_QuineCopiesItself ==
  QuineLoaded =>
    /\ IsPrefix(rx_outer, Quine)
    /\ computer.status = "running" => steps <= (5 * Len(rx_outer)) + 1
    /\ computer.status # "running" =>
         /\ computer.status = "halted"
         /\ Op = 99
         /\ rx_outer = Quine

C1_Witness ==
  /\ QuineLoaded
  /\ computer.status = "halted"
  /\ rx_outer = Quine

(***************************************************************************)
(* C2                                                                      *)
(***************************************************************************)
\* the parameters of the instruction at the pointer that are in relative mode
RelativeParams(m) ==
  {i \in 1..arg_count(m.kind, Fetched(m)) : Digit(m, i) = 2}

\* what the handler of the last instruction does when it is handed, for every
\* parameter, the address the addressing rules give
ByAddress ==
  get_command([Before EXCEPT !.cmd_ptr = @ + 1], Op,
              [i \in 1..arg_count(Before.kind, Op) |-> Address(Before, i)],
              BeforeRx, TRUE, TRUE, overflow_checks)

RelativeInBounds ==
  /\ Stepped
  /\ HasRelative(Before.kind)
  /\ Op # -1
  /\ RelativeParams(Before) # {}
  /\ \A i \in RelativeParams(Before) :
        InBounds(Before, Before.rel_base + Raw(Before, i))

\* C2: in the engines of problems 9 and 11, an instruction whose relative-mode
\* parameters d all name a cell (0 <= k + d < length, k the relative base)
\* does exactly what its handler does on the addresses k + d, the addresses
\* position-mode parameters of value k + d name: a relative output sends the
\* cell k + d and a relative input writes the cell k + d and no other.
C2_RelativeIsBasePlusOffset ==
  RelativeInBounds =>
    /\ computer = ByAddress.m
    /\ rx_outer = BeforeOut \o ByAddress.send
    /\ rx_computer = SubSeq(BeforeRx, ByAddress.recv + 1, Len(BeforeRx))
    /\ (Op = 4 /\ Before.kind = 9) =>
         rx_outer = Append(BeforeOut, Before.memory[Before.rel_base + Raw(Before, 1)])
    /\ (Op = 3 /\ Completed) =>
         \A a \in DOMAIN Before.memory :
            a # Before.rel_base + Raw(Before, 1) => computer.memory[a] = Before.memory[a]

C2_Witness ==
  /\ RelativeInBounds
  /\ Before.rel_base = 2
  /\ delta_sum = 2
  /\ Op = 4
  /\ Raw(Before, 1) = 1
  /\ rx_outer = <<Before.memory[3]>>

(***************************************************************************)
(* C3                                                                      *)
(***************************************************************************)
AllHaltLoaded == \A a \in DOMAIN loaded.memory : loaded.memory[a] = 99

\* C3: on a memory of 99s only, each of the four engines halts at its first
\* step: one step is taken and no second one, it is the halt, and after it
\* memory, the relative base, the phase setting, both channels and the
\* output and input fields are what they were when the engine was made.
C3_AllHaltRunsOneStep ==
  AllHaltLoaded =>
    /\ steps <= 1
    /\ steps = 0 => (computer.status = "running" /\ ENABLED Halt)
    /\ steps = 1 =>
         /\ computer.status = "halted"
         /\ Op = 99
         /\ computer.memory = loaded.memory
         /\ computer.rel_base = 0
         /\ rx_computer = loaded.rx
         /\ rx_outer = <<>>
         /\ computer = [Before EXCEPT !.cmd_ptr = 1, !.status = "halted"]
         /\ ~ENABLED Next

C3_Witness ==
  /\ AllHaltLoaded
  /\ computer.kind = 11
  /\ MemLen(computer) = 1
  /\ computer.status = "halted"

(***************************************************************************)
(* C4                                                                      *)
(***************************************************************************)
\* the last step was an arithmetic or comparison instruction whose three
\* parameters name cells of memory
ArithmeticInBounds ==
  /\ Stepped
  /\ Op \in {1, 2, 7, 8}
  /\ \A i \in 1..3 : InBounds(Before, Address(Before, i))

\* the operands of the last instruction, as held before it
OperandA == Operand(Before, 1)

OperandB == Operand(Before, 2)

\* the result the instruction table gives, over the integers
ExactResult ==
  CASE Op = 1 -> OperandA + OperandB
    [] Op = 2 -> OperandA * OperandB
    [] Op = 7 -> (IF OperandA < OperandB THEN 1 ELSE 0)
    [] Op = 8 -> (IF OperandA = OperandB THEN 1 ELSE 0)

\* the result over the integers is a machine word
ResultFits ==
  CASE Op = 1 -> Fits(OperandA + OperandB)
    [] Op = 2 -> MulFits(OperandA, OperandB)
    [] OTHER -> TRUE

\* the last step wrote the integer result and did nothing else
WroteExactResult ==
  /\ computer = [Before EXCEPT !.memory[Address(Before, 3)] = ExactResult,
                               !.cmd_ptr = Before.cmd_ptr + 4]
  /\ NoIO

\* C4 as stated: opcode 1, 2, 7 or 8 at p with in-bounds a, b, out sets
\* memory[out] to the sum, the product, or the 0/1 of the comparison of the
\* values held before the step, changes no other cell, not the relative base,
\* does no I/O, and leaves the pointer at p + 4.
C4_Original == ArithmeticInBounds => WroteExactResult

\* C4, amended: the same, when the sum or product fits the machine word; when
\* it does not, a build with overflow checks aborts the engine with memory and
\* the channels untouched, and a build without them stores the result wrapped
\* to the word and leaves the pointer at p + 4.
C4_ArithmeticWritesResult ==
  ArithmeticInBounds =>
    /\ ResultFits => WroteExactResult
    /\ (~ResultFits /\ overflow_checks) =>
         /\ computer.status = "overflow"
         /\ computer.memory = Before.memory
         /\ NoIO
    /\ (~ResultFits /\ ~overflow_checks) =>
         /\ Completed
         /\ Fits(computer.memory[Address(Before, 3)])
         /\ Op = 1 => computer.memory[Address(Before, 3)] = Wrap(OperandA + OperandB)
         /\ computer.cmd_ptr = Before.cmd_ptr + 4
         /\ NoIO

C4_Witness ==
  /\ ArithmeticInBounds
  /\ Op = 2
  /\ Digit(Before, 1) = 1
  /\ OperandA = 4
  /\ OperandB = 4
  /\ computer.memory[Address(Before, 3)] = 16
  /\ computer.cmd_ptr = Before.cmd_ptr + 4

(***************************************************************************)
(* C5                                                                      *)
(***************************************************************************)
\* the last step was a jump whose condition names a cell and whose target
\* address is a machine word (base plus offset does not leave the word)
JumpInBounds ==
  /\ Stepped
  /\ Op \in {5, 6}
  /\ InBounds(Before, Address(Before, 1))
  /\ Fits(Address(Before, 2))

\* the condition of the last jump held
JumpTaken == (Op = 5) = (Operand(Before, 1) # 0)

\* C5: opcode 5 (opcode 6) at p with condition cell cond and target cell
\* target sets the pointer to memory[target], the word read as the unsigned
\* pointer, when memory[cond] is non-zero (zero) and to p + 3 otherwise; no
\* memory cell, not the relative base and no channel is changed.
C5_JumpSetsPointer ==
  JumpInBounds =>
    /\ (JumpTaken /\ InBounds(Before, Address(Before, 2))) =>
         /\ computer = [Before EXCEPT !.cmd_ptr = AsUsize(Operand(Before, 2))]
         /\ Operand(Before, 2) >= 0 => computer.cmd_ptr = Operand(Before, 2)
    /\ ~JumpTaken => computer = [Before EXCEPT !.cmd_ptr = Before.cmd_ptr + 3]
    /\ computer.memory = Before.memory
    /\ computer.rel_base = Before.rel_base
    /\ NoIO

C5_Witness ==
  /\ JumpInBounds
  /\ Op = 6
  /\ JumpTaken
  /\ Digit(Before, 2) = 0
  /\ InBounds(Before, Address(Before, 2))
  /\ Operand(Before, 2) = 4
  /\ computer.cmd_ptr = 4

(***************************************************************************)
(* C6                                                                      *)
(***************************************************************************)
\* the last step was an input instruction of a channel engine that stored
InputStored ==
  /\ Stepped
  /\ HasChannels(Before.kind)
  /\ Op = 3
  /\ Completed

\* C6: in the engines of problems 7 and 9 the first input instruction stores
\* the phase setting and receives nothing; the n-th, n > 1, stores the
\* (n-1)-th value that was sent to the input channel and receives it and no
\* other; the phase setting is gone after the first.  Each leaves the pointer
\* two after its opcode word and changes no other cell.
C6_PhaseThenPort ==
  /\ InputStored =>
       /\ inputs >= 1
       /\ inputs = 1 =>
            /\ computer.memory[Address(Before, 1)] = loaded.value
            /\ rx_computer = loaded.rx
       /\ inputs > 1 =>
            /\ inputs - 1 <= Len(loaded.rx)
            /\ computer.memory[Address(Before, 1)] = loaded.rx[inputs - 1]
            /\ rx_computer = SubSeq(loaded.rx, inputs, Len(loaded.rx))
       /\ computer.phase_setting = <<>>
       /\ computer.cmd_ptr = Before.cmd_ptr + 2
       /\ \A a \in DOMAIN Before.memory :
            a # Address(Before, 1) => computer.memory[a] = Before.memory[a]
       /\ rx_outer = BeforeOut
  /\ (HasChannels(computer.kind) /\ inputs = 0 /\ computer.status \in {"running", "halted"}) =>
       /\ computer.phase_setting = <<loaded.value>>
       /\ rx_computer = loaded.rx

C6_Witness ==
  /\ InputStored
  /\ Before.kind = 7
  /\ inputs = 3
  /\ loaded.value = 5
  /\ loaded.rx = <<6, 7>>
  /\ computer.memory[Address(Before, 1)] = 7
  /\ rx_computer = <<>>

(***************************************************************************)
(* C7                                                                      *)
(***************************************************************************)
\* the parameters an instruction reads a value through
ReadParams(op) ==
  CASE op \in {1, 2, 5, 6, 7, 8} -> {1, 2}
    [] op \in {4, 9} -> {1}
    [] OTHER -> {}

\* the value read parameter i of the last instruction stands for: the raw
\* parameter word in immediate mode, the content of the named cell otherwise
ReadValue(i) ==
  IF Digit(Before, i) = 1 THEN Raw(Before, i) ELSE Operand(Before, i)

\* the last instruction read through an immediate parameter, and each of its
\* parameters names a cell
ImmediateRead ==
  /\ Stepped
  /\ ReadParams(Op) # {}
  /\ \E i \in ReadParams(Op) : Digit(Before, i) = 1
  /\ \A i \in 1..arg_count(Before.kind, Op) : InBounds(Before, Address(Before, i))

LoadedLen == Cardinality(DOMAIN loaded.memory)

\* the engine was loaded with 104, v, 99 and zero cells
EchoLoaded ==
  /\ HasChannels(computer.kind)
  /\ LoadedLen = 3 + ScratchLen
  /\ Loaded(<<104, loaded.memory[1], 99>>, ScratchLen)

\* C7: a read parameter in immediate mode stands for its raw word: the output
\* sends (pushes, paints) it, the jumps test it and jump to it, adjust-base
\* adds it, and the arithmetic and comparison instructions compute with it.
\* The program 104, v, 99 sends v at its first step, halts at its second, and
\* sends nothing else.
C7_ImmediateIsRawWord ==
  /\ ImmediateRead =>
       /\ (Op = 4 /\ HasChannels(Before.kind)) =>
            rx_outer = Append(BeforeOut, Raw(Before, 1))
       /\ (Op = 4 /\ Before.kind = 5) =>
            computer.output = Append(Before.output, Raw(Before, 1))
       /\ (Op = 4 /\ Before.kind = 11 /\ Before.should_paint) =>
            /\ PanelAt(computer, Before.position) = Raw(Before, 1)
            /\ computer.input_signal = Raw(Before, 1)
       /\ (Op = 4 /\ Before.kind = 11 /\ ~Before.should_paint) =>
            computer.direction = direction_next(Before.direction, Raw(Before, 1))
       /\ Op \in {5, 6} =>
            computer.cmd_ptr =
              (IF (Op = 5) = (ReadValue(1) # 0) THEN AsUsize(ReadValue(2))
               ELSE Before.cmd_ptr + 3)
       /\ (Op = 9 /\ Fits(Before.rel_base + Raw(Before, 1))) =>
            computer.rel_base = Before.rel_base + Raw(Before, 1)
       /\ (Op = 1 /\ Fits(ReadValue(1) + ReadValue(2))) =>
            computer.memory[Address(Before, 3)] = ReadValue(1) + ReadValue(2)
       /\ (Op = 2 /\ MulFits(ReadValue(1), ReadValue(2))) =>
            computer.memory[Address(Before, 3)] = ReadValue(1) * ReadValue(2)
       /\ Op = 7 =>
            computer.memory[Address(Before, 3)] =
              (IF ReadValue(1) < ReadValue(2) THEN 1 ELSE 0)
       /\ Op = 8 =>
            computer.memory[Address(Before, 3)] =
              (IF ReadValue(1) = ReadValue(2) THEN 1 ELSE 0)
  /\ EchoLoaded =>
       /\ steps <= 2
       /\ steps = 0 => ENABLED PushOutput
       /\ steps = 1 =>
            /\ computer.status = "running"
            /\ rx_outer = <<loaded.memory[1]>>
            /\ ENABLED Halt
       /\ steps = 2 =>
            /\ computer.status = "halted"
            /\ Op = 99
            /\ rx_outer = <<loaded.memory[1]>>
            /\ ~ENABLED Next

C7_Witness ==
  /\ EchoLoaded
  /\ loaded.memory[1] = MinWord
  /\ computer.status = "halted"
  /\ rx_outer = <<MinWord>>

(***************************************************************************)
(* C8                                                                      *)
(***************************************************************************)
\* the last step was a multiplication whose parameters name cells
MulInBounds ==
  /\ Stepped
  /\ Op = 2
  /\ \A i \in 1..3 : InBounds(Before, Address(Before, i))

\* the engine was loaded with 1102, x, x, 7, 4, 7, 99, 0 and zero cells
SquareLoaded ==
  /\ HasChannels(computer.kind)
  /\ LoadedLen = 8 + ScratchLen
  /\ Loaded(<<1102, loaded.memory[1], loaded.memory[1], 7, 4, 7, 99, 0>>, ScratchLen)

\* tests::output_16_digits: the factor of the program
SquareFactor == 34915192

\* numbers wider than TLC's integers, as limbs to the base 10^4, the
\* lowest first: the square of x < 10^8
SquareLimbs(x) ==
  LET hi == x \div Pow10(4)
      lo == x % Pow10(4)
      t0 == lo * lo
      t1 == (2 * hi * lo) + (t0 \div Pow10(4))
      t2 == (hi * hi) + (t1 \div Pow10(4))
  IN <<t0 % Pow10(4), t1 % Pow10(4), t2 % Pow10(4), t2 \div Pow10(4)>>

\* the decimal digits of a limb, and of a number in limbs whose top is not 0
LimbDigits(v) == CHOOSE d \in 1..4 : Pow10(d - 1) <= v /\ v < Pow10(d)

DecimalDigits(limbs) == (4 * (Len(limbs) - 1)) + LimbDigits(limbs[Len(limbs)])

\* C8: a multiplication whose product fits the machine word stores exactly
\* the product; the program 1102, x, x, 7, 4, 7, 99, 0 sends x * x first, and
\* only it, whenever x * x fits.  For x = 34915192 the product is
\* 1219070632396864, of 16 decimal digits, and it fits 64 bits: four limbs
\* are below 10^16 = 2^16 * (5^8)^2, and 5^8 < 2^23 puts that below 2^62.
C8_ProductIsExact ==
  /\ (MulInBounds /\ MulFits(OperandA, OperandB)) =>
       /\ Completed
       /\ computer.memory[Address(Before, 3)] = OperandA * OperandB
  /\ (SquareLoaded /\ MulFits(loaded.memory[1], loaded.memory[1])) =>
       /\ computer.status \in {"running", "halted"}
       /\ steps >= 2 => rx_outer = <<loaded.memory[1] * loaded.memory[1]>>
       /\ steps < 2 => rx_outer = <<>>
       /\ computer.status = "halted" <=> steps = 3
  /\ (SquareLoaded /\ steps = 0) =>
       /\ SquareLimbs(SquareFactor) = <<6864, 3239, 706, 1219>>
       /\ DecimalDigits(SquareLimbs(SquareFactor)) = 16
       /\ Len(SquareLimbs(SquareFactor)) = 4
       /\ 5 ^ 8 < 2 ^ 23

C8_Witness ==
  /\ SquareLoaded
  /\ loaded.memory[1] = -181
  /\ computer.status = "halted"
  /\ rx_outer = <<32761>>

(***************************************************************************)
(* C9                                                                      *)
(***************************************************************************)
\* what holds of the relative base whether or not sums wrap: it is 0 at
\* creation, an adjust-base step leaves the pointer two after its opcode word,
\* and no other step changes the base
RelBaseFrame ==
  /\ steps = 0 => computer.rel_base = 0
  /\ (Stepped /\ Op = 9 /\ Completed) => computer.cmd_ptr = Before.cmd_ptr + 2
  /\ (Stepped /\ (Op # 9 \/ ~Completed)) => computer.rel_base = Before.rel_base

\* C9 as stated: the relative base is the sum of the memory[delta] of the
\* adjust-base instructions executed so far.
C9_Original ==
  /\ RelBaseFrame
  /\ computer.rel_base = delta_sum

\* C9, amended: the relative base is that sum wrapped to the machine word; in
\* a build with overflow checks it is the sum itself, the adjust-base that
\* would leave the word range aborting the engine instead.
C9_RelBaseIsWrappedSum ==
  /\ RelBaseFrame
  /\ computer.rel_base = Wrap(delta_sum)
  /\ overflow_checks => computer.rel_base = delta_sum
  /\ (Stepped /\ Op = 9 /\ overflow_checks
        /\ InBounds(Before, Address(Before, 1))
        /\ ~Fits(Before.rel_base + Operand(Before, 1))) =>
       computer.status = "overflow"

C9_Witness ==
  /\ Stepped
  /\ Op = 9
  /\ Completed
  /\ ~overflow_checks
  /\ delta_sum = MaxWord + 4
  /\ computer.rel_base = MinWord + 3

(***************************************************************************)
(* C10                                                                     *)
(***************************************************************************)
\* the mode codes of an engine
ModeCodes(kind) == IF HasRelative(kind) THEN {0, 1, 2} ELSE {0, 1}

ModeOfCode(code) ==
  CASE code = 0 -> "Position"
    [] code = 1 -> "Value"
    [] code = 2 -> "Relative"
    [] OTHER -> "none"

\* the last step decoded a non-negative word
DecodedWord ==
  /\ Stepped
  /\ InBounds(Before, Before.cmd_ptr)
  /\ Before.memory[Before.cmd_ptr] >= 0

\* the word the last step decoded
Decoded == Before.memory[Before.cmd_ptr]

DecodedDigit(i) == (Decoded \div Pow10(i + 1)) % 10

\* decode_instruction returned, with the opcode and the modes the digits of
\* the word give and the pointer one further; when the opcode is not known
\* the step changed nothing else; when it is known and every parameter names
\* a cell, the step did what its handler does on the addresses those modes
\* give
DecodedByDigits ==
  /\ computer.status # "unknown code"
  /\ decode_instruction(Before).opcode = Decoded % 100
  /\ \A i \in 1..3 : decode_instruction(Before).modes[i] = ModeOfCode(DecodedDigit(i))
  /\ decode_instruction(Before).cmd_ptr = Before.cmd_ptr + 1
  /\ arg_count(Before.kind, Decoded % 100) = -1 =>
       /\ computer = [Before EXCEPT !.cmd_ptr = @ + 1, !.status = "unknown opcode"]
       /\ NoIO
  /\ (Op # -1 /\ \A i \in 1..arg_count(Before.kind, Op) :
                    InBounds(Before, Address(Before, i))) =>
       /\ Op = Decoded % 100
       /\ computer = ByAddress.m
       /\ rx_outer = BeforeOut \o ByAddress.send

\* C10 as stated: every non-negative word at the pointer is decoded into
\* opcode w mod 100 and the modes of its hundreds, thousands and ten-thousands
\* digits, the pointer advanced by one and nothing else changed.
C10_Original == DecodedWord => DecodedByDigits

\* C10, amended: so is every non-negative word whose hundreds, thousands and
\* ten-thousands digits are mode codes of the engine; a word with another
\* digit there aborts the engine in decode_instruction, the pointer advanced
\* by one and nothing else changed.
C10_DecodeByDigits ==
  DecodedWord =>
    /\ (\A i \in 1..3 : DecodedDigit(i) \in ModeCodes(Before.kind)) => DecodedByDigits
    /\ (\E i \in 1..3 : DecodedDigit(i) \notin ModeCodes(Before.kind)) =>
         /\ computer = [Before EXCEPT !.cmd_ptr = @ + 1, !.status = "unknown code"]
         /\ NoIO

C10_Witness ==
  /\ DecodedWord
  /\ Decoded = 21107
  /\ Before.kind = 9
  /\ Before.rel_base = 2
  /\ Completed
  /\ computer.cmd_ptr = Before.cmd_ptr + 4

(***************************************************************************)
(* C11                                                                     *)
(***************************************************************************)
\* the opcodes an engine knows
KnownOpcodes(kind) ==
  IF HasRelative(kind) THEN (1..9) \cup {99} ELSE (1..8) \cup {99}

\* the last step found at the pointer a word whose value mod 100 is no opcode
\* of the engine
UnknownOpcodeWord ==
  /\ Stepped
  /\ InBounds(Before, Before.cmd_ptr)
  /\ (Before.memory[Before.cmd_ptr] % 100) \notin KnownOpcodes(Before.kind)

\* the last step aborted the engine: it neither returned Some nor None
Aborted == computer.status \notin {"running", "halted"}

\* C11: a word at the pointer whose value mod 100 is outside the engine's
\* opcodes aborts the engine: memory is as before, nothing is received or
\* sent, and no further step is taken.
C11_UnknownOpcodeAborts ==
  UnknownOpcodeWord =>
    /\ Aborted
    /\ computer.memory = Before.memory
    /\ NoIO
    /\ ~ENABLED Next

\* the same for the words that are not negative, where the value mod 100 is
\* the opcode decode_instruction returns
UnknownOpcodeAbortsFromZeroUp ==
  (UnknownOpcodeWord /\ Before.memory[Before.cmd_ptr] >= 0) =>
    /\ Aborted
    /\ computer.memory = Before.memory
    /\ NoIO
    /\ ~ENABLED Next

(***************************************************************************)
(* C12                                                                     *)
(***************************************************************************)
\* the parameters of the instruction at the pointer whose address, by the
\* addressing rules, is negative
NegativeParams(m) ==
  {i \in 1..arg_count(m.kind, Fetched(m)) : Digit(m, i) # 1 /\ Address(m, i) < 0}

\* the last instruction had a parameter that resolves to a negative address
NegativeAddress ==
  /\ Stepped
  /\ Op # -1
  /\ NegativeParams(Before) # {}

\* nothing was written or sent by the last step: memory, the output channel,
\* the output Vec of problem 5 and the panels of problem 11 are as before
NothingWrittenOrSent ==
  /\ computer.memory = Before.memory
  /\ rx_outer = BeforeOut
  /\ Before.kind = 5 => computer.output = Before.output
  /\ Before.kind = 11 => computer.panels = Before.panels

Indexed(i) ==
  (Op \in {5, 6} /\ i = 2) =>
    (InBounds(Before, Address(Before, 1)) => JumpTaken)

WrappedAddressUsed ==
  /\ NegativeAddress
  /\ Op = 4
  /\ ~Fits(Address(Before, 1))
  /\ Completed
  /\ rx_outer = <<MinWord + 3>>

RobotOutput ==
  /\ Stepped
  /\ Before.kind = 11
  /\ Op = 4
  /\ Completed

\* the value the last output instruction emitted
Emitted == Before.memory[StepArgs(Before)[1]]

\* C20: in the painting robot should_paint is true until the first output and
\* flips at every output: the k-th output paints the cell the robot stands on
\* (and neither turns nor moves) when k is odd, and turns and moves the robot
\* (and paints nothing) when k is even.
C20_PaintThenMove ==
  /\ computer.kind = 11 => (computer.should_paint <=> outputs % 2 = 0)
  /\ RobotOutput =>
       /\ outputs % 2 = 1 =>
            /\ Before.should_paint
            /\ PanelAt(computer, Before.position) = Emitted
            /\ computer.output = Before.output \cup {Before.position}
            /\ computer.position = Before.position
            /\ computer.direction = Before.direction
       /\ outputs % 2 = 0 =>
            /\ ~Before.should_paint
            /\ computer.direction = direction_next(Before.direction, Emitted)
            /\ computer.position = move(Before.position, computer.direction)
            /\ computer.position # Before.position
            /\ computer.panels = Before.panels
            /\ computer.output = Before.output

C20_Witness ==
  /\ RobotOutput
  /\ outputs = 4
  /\ computer.should_paint
  /\ computer.position = <<-1, -1>>
  /\ computer.output = {<<0, 0>>, <<-1, 0>>}

(***************************************************************************)
(* C14                                                                     *)
(***************************************************************************)
\* get_output returned a value
ChainReturned == harness.topology = "chain" /\ harness.pc = "returned"

\* C14: the value get_output returns is the last value the final stage
\* emitted before it halted.
C14_ChainReturnsLast ==
  ChainReturned =>
    /\ harness.emitted # <<>>
    /\ harness.result = harness.emitted[Len(harness.emitted)]

\* what get_output returns is the first value the final stage emitted, after
\* every stage has halted
ChainReturnsFirst ==
  ChainReturned =>
    /\ harness.emitted # <<>>
    /\ harness.result = harness.emitted[1]
    /\ Len(computers) = Len(harness.phase_settings)
    /\ \A i \in 1..Len(computers) : computers[i].status = "halted"

\* a final stage that emitted two different values
ChainEmittedTwo ==
  /\ ChainReturned
  /\ Len(harness.emitted) = 2
  /\ harness.emitted[1] # harness.emitted[2]


(***************************************************************************)
(* C16                                                                     *)
(***************************************************************************)
\* get_output_with_feedback_loop returned a value
RingReturned == harness.topology = "ring" /\ harness.pc = "returned"

\* the value sent into the ring before the stages start
RingSeed == SeededQueues(Len(computers))[0][1]

\* C16: in a ring of pass-through stages, whatever the phase settings and
\* the interleaving of the stages and the forwarding loop, the function
\* cannot get stuck before it returns, no stage aborts, and the value returned
\* is the seed, emitted once by the last stage and forwarded once.
C16_PassThroughReturnsSeed ==
  (harness.topology = "ring" /\ harness.program = PassThrough) =>
    /\ \A i \in 1..Len(computers) : computers[i].status \in {"running", "halted"}
    /\ harness.pc = "forwarding" => ENABLED NextRing
    /\ RingReturned =>
         /\ harness.result = RingSeed
         /\ harness.emitted = <<RingSeed>>
         /\ harness.forwarded = 1

\* a ring of more than one pass-through stage has returned
C16_Witness ==
  /\ RingReturned
  /\ harness.program = PassThrough
  /\ Len(computers) > 1
  /\ harness.phase_settings[1] # harness.phase_settings[2]
  /\ harness.forwarded = 1

(***************************************************************************)
(* C17                                                                     *)
(***************************************************************************)
\* the last value of a sequence that is not empty
LastOf(seq) == seq[Len(seq)]

\* C17: when get_output_with_feedback_loop returns, every stage has halted by
\* executing opcode 99 and the value returned is the last value the final
\* stage emitted.
C17_AllHaltedAtReturn ==
  RingReturned =>
    /\ \A i \in 1..Len(computers) : harness.status_at_return[1][i] = "halted"
    /\ harness.emitted # <<>>
    /\ harness.result = LastOf(harness.emitted)

\* what holds at the return: the final stage has stopped, by a halt or by a
\* panic, everything it emitted was forwarded, and the value is the last it
\* emitted, or the fold's initial 0 when it emitted nothing
RingReturnsLastForwarded ==
  RingReturned =>
    /\ harness.status_at_return[1][Len(computers)] # "running"
    /\ harness.forwarded = Len(harness.emitted)
    /\ harness.result = IF harness.emitted = <<>> THEN 0
                        ELSE LastOf(harness.emitted)

\* the function returned while a stage had yet to execute its halt
ReturnedBeforeHalt ==
  /\ RingReturned
  /\ harness.program = PassThrough
  /\ \E i \in 1..Len(computers) : harness.status_at_return[1][i] = "running"

(***************************************************************************)
(* C18                                                                     *)
(***************************************************************************)
\* C18: get_output_with_feedback_loop does not return a value when a stage of
\* the ring has aborted with a fault.
C18_FaultReachesCaller ==
  RingReturned =>
    \A i \in 1..Len(computers) :
      harness.status_at_return[1][i] \in {"running", "halted"}

\* the function returned a value although every stage had aborted on an
\* unknown opcode
ReturnedAfterFault ==
  /\ RingReturned
  /\ harness.program = FaultAfterEmit
  /\ \A i \in 1..Len(computers) :
       harness.status_at_return[1][i] = "unknown opcode"

(***************************************************************************)
(* C19                                                                     *)
(***************************************************************************)
\* the last thing that happened in the ring was a step of a stage
RingStepped == harness.topology = "ring" /\ harness.last # <<>>

\* the stage that stepped last, as it was before the step
RingBefore == harness.last[1].computer

\* the last step executed an input instruction with the phase setting
\* consumed, the input channel empty and every sender of it gone
RecvFailed ==
  /\ RingStepped
  /\ Fetched(RingBefore) = 3
  /\ RingBefore.phase_setting = <<>>
  /\ harness.last[1].queues[harness.last[1].stage - 1] = <<>>
  /\ ~harness.last[1].rx_open

\* the last step executed an output instruction, its value a cell of memory,
\* with the receiver of the output channel gone
SendFailed ==
  /\ RingStepped
  /\ Fetched(RingBefore) = 4
  /\ InBounds(RingBefore, Address(RingBefore, 1))
  /\ ~harness.last[1].tx_open

\* the stage that stepped last stopped with the given panic, its pointer past
\* the instruction word only and all else as before, no channel touched
RingAborted(why) ==
  /\ computers[harness.last[1].stage] =
       [RingBefore EXCEPT !.cmd_ptr = @ + 1, !.status = why]
  /\ queues = harness.last[1].queues

\* C19: an input instruction that finds the phase setting consumed, the
\* channel empty and every sender gone aborts the stage with the destination
\* cell unwritten; an output instruction whose receiver is gone aborts the
\* stage without the handler's advance of the pointer; no default is stored
\* and nothing is skipped.
C19_ClosedChannelAborts ==
  /\ RecvFailed => RingAborted("recv")
  /\ SendFailed => RingAborted("send")

\* a stage's second send failed after the next stage had halted
C19_Witness ==
  /\ SendFailed
  /\ harness.program = EmitTwice
  /\ computers[harness.last[1].stage].status = "send"

\* a stage's read failed after the stage before it had halted
RecvFailedReached ==
  /\ RecvFailed
  /\ harness.program = ReadAgain
  /\ computers[harness.last[1].stage].status = "recv"


(***************************************************************************)
(* C15                                                                     *)
(***************************************************************************)
\* solve_1 or solve_2 returned a value
SolveReturned == harness.topology = "solve" /\ harness.pc = "returned"

\* the orderings of a sequence of distinct phase settings, as a set
Orderings(phases) ==
  {s \in [1..Len(phases) -> {phases[i] : i \in 1..Len(phases)}] :
     \A i, j \in 1..Len(phases) : s[i] = s[j] => i = j}

\* the values of the call over a set of phase settings
AmplifiedValues(settings) ==
  {Amplify(harness.solver, harness.program, s, overflow_checks).value : s \in settings}

\* C15: solve_1 calls get_output, and solve_2 calls
\* get_output_with_feedback_loop, once for each of the 120 orderings of its
\* five phase settings (0..4 and 5..9), and returns the greatest of the
\* values, which is the greatest over the set of orderings whatever the order
\* they were generated in.
C15_MaxOverPermutations ==
  SolveReturned =>
    /\ Len(harness.permutations) = 120
    /\ {harness.permutations[k] : k \in 1..120} = Orderings(Phases(harness.solver))
    /\ Cardinality(Orderings(Phases(harness.solver))) = 120
    /\ Len(harness.results) = 120
    /\ \A k \in 1..120 :
         harness.results[k] =
           Amplify(harness.solver, harness.program, harness.permutations[k],
                   overflow_checks).value
    /\ harness.result \in AmplifiedValues(Orderings(Phases(harness.solver)))
    /\ \A v \in AmplifiedValues(Orderings(Phases(harness.solver))) :
         v <= harness.result

\* solve_2 returned a value that some ordering does not reach
C15_Witness ==
  /\ SolveReturned
  /\ harness.solver = "solve_2"
  /\ harness.program = DoublePlusPhase
  /\ \E k \in 1..Len(harness.results) : harness.results[k] < harness.result

\* the calls of the model of solve agree with the stepwise models: what
\* get_output and get_output_with_feedback_loop return does not depend on how
\* the steps are grouped or, for these stage programs, interleaved
ChainAgrees ==
  ChainReturned =>
    get_output(harness.program, harness.phase_settings, overflow_checks)
      = Returned(harness.result)

RingAgrees ==
  (RingReturned /\ harness.program \in SolvePrograms) =>
    get_output_with_feedback_loop(harness.program, harness.phase_settings,
                                  overflow_checks)
      = Returned(harness.result)


(***************************************************************************)
(* C21                                                                     *)
(***************************************************************************)
\* the headings in clockwise order
Clockwise == <<"Up", "Right", "Down", "Left">>

\* the heading k quarter turns clockwise of heading d
QuarterTurns(d, k) ==
  LET i == CHOOSE j \in 1..4 : Clockwise[j] = d
  IN Clockwise[(((i - 1) + k) % 4) + 1]

\* the heading after turn output v: a quarter turn to the left for 0, to the
\* right for any other value
Turned(d, v) == IF v = 0 THEN QuarterTurns(d, 3) ELSE QuarterTurns(d, 1)

\* the cell one step from pos in heading d
Ahead(pos, d) ==
  CASE d = "Up" -> <<pos[1], pos[2] + 1>>
    [] d = "Down" -> <<pos[1], pos[2] - 1>>
    [] d = "Right" -> <<pos[1] + 1, pos[2]>>
    [] d = "Left" -> <<pos[1] - 1, pos[2]>>

\* the last step was a turn output of the painting robot that returned
RobotTurn == RobotOutput /\ ~Before.should_paint

\* C21: a turn output v of the painting robot turns the heading a quarter
\* turn to the left when v = 0 and to the right when v is not 0, then moves
\* the position one cell in the new heading; from the heading reached, four
\* equal turns, and a left and a right turn in either order, lead back to it.
C21_TurnThenMove ==
  RobotTurn =>
    /\ computer.direction = Turned(Before.direction, Emitted)
    /\ computer.position = Ahead(Before.position, computer.direction)
    /\ \A v \in {0, Emitted, 1, -1} :
         direction_next(direction_next(direction_next(direction_next(
           computer.direction, v), v), v), v) = computer.direction
    /\ \A v \in {Emitted, 1, -1} :
         v # 0 =>
           /\ direction_next(direction_next(computer.direction, 0), v)
                = computer.direction
           /\ direction_next(direction_next(computer.direction, v), 0)
                = computer.direction

\* the robot turned left to (-1, 0) and then, on the value 2, right to (-1, 1),
\* heading Up as at the start
C21_Witness ==
  /\ RobotTurn
  /\ outputs = 4
  /\ Emitted = 2
  /\ Before.direction = "Left"
  /\ Before.position = <<-1, 0>>
  /\ computer.direction = "Up"
  /\ computer.position = <<-1, 1>>


(***************************************************************************)
(* C22                                                                     *)
(***************************************************************************)
\* the colour writes at pos so far: the odd outputs put out there
Writes(pos) ==
  {k \in 1..Len(signals) : k % 2 = 1 /\ signals[k].at = pos}

\* what a cell holds before any write: 1 at the start cell, 0 elsewhere
Unwritten(pos) == IF pos = <<0, 0>> THEN 1 ELSE 0

\* the grid's value at pos: the last colour written there, else what the
\* cell held at the start
GridValue(pos) ==
  IF Writes(pos) = {} THEN Unwritten(pos)
  ELSE signals[CHOOSE k \in Writes(pos) : \A j \in Writes(pos) : j <= k].value

\* the last step was an input instruction of the painting robot that returned
RobotInput ==
  /\ Stepped
  /\ Before.kind = 11
  /\ Op = 3
  /\ Completed

\* C22: once the painting robot has turned and moved, at the end of every
\* turn-and-move the input value is the grid's value at the new position, and
\* the value an input instruction stores is the grid's value at the position
\* the robot has moved to: the last colour written there, or 0 for a cell
\* never written that is not the start cell.
C22_InputIsGridValue ==
  /\ RobotTurn => computer.input_signal = GridValue(computer.position)
  /\ (RobotInput /\ outputs >= 2) =>
       computer.memory[StepArgs(Before)[1]] = GridValue(computer.position)

\* back at the start cell after four moves, the robot reads the 1 it wrote
\* there
C22_Witness ==
  /\ RobotInput
  /\ outputs = 8
  /\ computer.position = <<0, 0>>
  /\ Writes(<<0, 0>>) = {1}
  /\ computer.memory[StepArgs(Before)[1]] = 1

\* at a cell it has not been to, the robot reads 0
ReadUnwritten ==
  /\ RobotInput
  /\ outputs = 2
  /\ computer.position # <<0, 0>>
  /\ Writes(computer.position) = {}
  /\ computer.memory[StepArgs(Before)[1]] = 0


(***************************************************************************)
(* C23                                                                     *)
(***************************************************************************)
\* the painting robot as solve_1 or solve_2 made it, before any step
RobotMade == computer.kind = 11 /\ steps = 0

\* cells around the start cell, the start cell among them
Nearby == (-2..2) \X (-2..2)

\* C23: before the first instruction of the painting robot, whatever input
\* it was made with (0 in solve_1, 1 in solve_2), the grid holds 1 at the
\* start cell (0, 0), cell [500][500] of the panels, and 0 at every other cell, the
\* robot is at (0, 0) heading Up, the set of written cells is empty and the
\* first output will paint.
C23_SeededGrid ==
  RobotMade =>
    /\ computer.input_signal = loaded.value
    /\ PanelAt(computer, <<0, 0>>) = 1
    /\ \A pos \in (Nearby \cup DOMAIN computer.panels) \ {<<0, 0>>} :
         PanelAt(computer, pos) = 0
    /\ <<PanelOrigin, PanelOrigin>> = <<500, 500>>
    /\ OnPanels(<<0, 0>>)
    /\ computer.position = <<0, 0>>
    /\ computer.direction = "Up"
    /\ computer.output = {}
    /\ computer.should_paint

\* the robot of solve_2 before its first step
C23_Witness ==
  /\ RobotMade
  /\ loaded.value = 1
  /\ loaded.memory = ToVec(Repaint(0) \o Zeros(ScratchLen))


(***************************************************************************)
(* C24                                                                     *)
(***************************************************************************)
\* the positions at which a colour write has happened
Written == {signals[k].at : k \in {j \in 1..Len(signals) : j % 2 = 1}}

\* C24: in the painting robot the set output is the set of the positions at
\* which a colour write has happened, however often and with whatever colours;
\* a turn output leaves it as it was; a cell outside it holds what it held at
\* the start, and a cell in it the last colour written there.
C24_OutputIsWrittenCells ==
  computer.kind = 11 =>
    /\ computer.output = Written
    /\ Cardinality(computer.output) <= (Len(signals) + 1) \div 2
    /\ RobotTurn => computer.output = Before.output
    /\ \A pos \in Nearby \cup DOMAIN computer.panels :
         PanelAt(computer, pos) =
           IF pos \in computer.output THEN GridValue(pos) ELSE Unwritten(pos)

\* the robot has written seven times, on four cells, with both colours at the
\* start cell
C24_Witness ==
  /\ RobotTurn
  /\ Len(signals) = 14
  /\ Cardinality(computer.output) = 4
  /\ Cardinality(Writes(<<0, 0>>)) = 2
  /\ \E j, k \in Writes(<<0, 0>>) : signals[j].value # signals[k].value


(***************************************************************************)
(* C25                                                                     *)
(***************************************************************************)
\* the pixels of a whole layer
LayerSize == puzzle.width * puzzle.height

\* the layers that have a pixel i
LayersWith(i) ==
  {l \in 1..Len(puzzle.data) : ((l - 1) * LayerSize) + i <= Len(puzzle.data)}

\* pixel i of layer l, as it stands in the data
Pixel(l, i) == puzzle.data[((l - 1) * LayerSize) + i]

\* the layers that are not transparent at pixel i
Opaque(i) == {l \in LayersWith(i) : Pixel(l, i) # 2}

\* the value at i of the first layer that is not transparent there, 2 when
\* there is none
FirstOpaque(i) ==
  IF Opaque(i) = {} THEN 2
  ELSE Pixel(CHOOSE l \in Opaque(i) : \A k \in Opaque(i) : l <= k, i)

\* the pixels of the image: those of the first layer
ImagePixels ==
  IF Len(puzzle.data) < LayerSize THEN Len(puzzle.data) ELSE LayerSize

\* the place in the rendering of pixel i: rows of width pixels, a character
\* between each two pixels of a row and between each two rows
PlaceOf(i) ==
  (((i - 1) \div puzzle.width) * (2 * puzzle.width)) + (2 * ((i - 1) % puzzle.width)) + 1

\* the rendering as the claim states it
Rendering ==
  [k \in 1..PlaceOf(ImagePixels) |->
     IF \E i \in 1..ImagePixels : PlaceOf(i) = k
       THEN (LET i == CHOOSE j \in 1..ImagePixels : PlaceOf(j) = k
             IN IF FirstOpaque(i) = 1 THEN "0" ELSE " ")
     ELSE IF k % (2 * puzzle.width) = 0 THEN "\n"
     ELSE " "]

\* the image and its rendering are as the claim states them
Flattened ==
  /\ Len(puzzle.image) = ImagePixels
  /\ \A i \in 1..ImagePixels : puzzle.image[i] = FirstOpaque(i)
  /\ puzzle.rendered = Rendering

\* the last layer is short, and a pixel it lacks is transparent in every
\* layer before it
RaggedHole ==
  /\ LayerSize > 0
  /\ Len(puzzle.data) > LayerSize
  /\ Len(puzzle.data) % LayerSize # 0
  /\ \E i \in ((Len(puzzle.data) % LayerSize) + 1)..LayerSize : Opaque(i) = {}

\* get_image was called with at least one layer
ImageCalled ==
  /\ puzzle.problem = 8
  /\ puzzle.pc \in {"fold", "panicked", "returned"}
  /\ puzzle.layers # <<>>

\* C25 as stated: get_image, called with layers, returns the flattened image:
\* at each pixel the value of the first layer not transparent there, 2 when
\* every layer is transparent there, rendered in rows of width pixels.
C25_Original ==
  ImageCalled =>
    /\ puzzle.pc # "panicked"
    /\ puzzle.pc = "returned" => Flattened

\* C25: get_image panics when it is given no layer, and when the last layer
\* is short and a pixel it lacks is transparent in every layer before it; in
\* every other case it returns the image that holds at each pixel of the first
\* layer the value of the first layer not transparent there (2 when there is
\* none), rendered with '0' for 1 and a blank for any other value, the pixels
\* of a row joined by a blank and the rows of width pixels by a newline.
C25_FlattenedInOrder ==
  (puzzle.problem = 8 /\ puzzle.pc \in {"fold", "panicked", "returned"}) =>
    /\ puzzle.pc = "panicked" => (puzzle.layers = <<>> \/ RaggedHole)
    /\ puzzle.pc = "returned" =>
         /\ puzzle.layers # <<>>
         /\ ~RaggedHole
         /\ Flattened

\* an image of two rows of two pixels, its first pixel taken from the short
\* second layer
C25_Witness ==
  /\ puzzle.problem = 8
  /\ puzzle.pc = "returned"
  /\ puzzle.data = <<2, 1, 1, 0, 1>>
  /\ puzzle.width = 2
  /\ puzzle.height = 2
  /\ puzzle.image = <<1, 1, 1, 0>>
  /\ puzzle.rendered = <<"0", " ", "0", "\n", "0", " ", " ">>

\* three layers of two pixels in a column, the last layer short
ThreeLayers ==
  /\ puzzle.problem = 8
  /\ puzzle.pc = "returned"
  /\ puzzle.data = <<0, 2, 2, 1, 2>>
  /\ puzzle.width = 1
  /\ puzzle.height = 2
  /\ puzzle.rendered = <<" ", "\n", "0">>


(***************************************************************************)
(* C26                                                                     *)
(***************************************************************************)
\* the lattice points strictly between a and b on the segment from a to b:
\* on the line through them, and nearer to each than they are to each other
Between(a, b) ==
  {p \in Cells(puzzle.map.rows, puzzle.map.cols) :
     /\ p # a
     /\ p # b
     /\ ((b[1] - a[1]) * (p[2] - a[2])) = ((b[2] - a[2]) * (p[1] - a[1]))
     /\ ((p[1] - a[1]) * (b[1] - a[1])) + ((p[2] - a[2]) * (b[2] - a[2])) > 0
     /\ ((p[1] - b[1]) * (a[1] - b[1])) + ((p[2] - b[2]) * (a[2] - b[2])) > 0}

\* has_clear_path was called and is over
SightCalled == puzzle.problem = 10 /\ puzzle.pc # "called"

\* C26: for two distinct points of a map, has_clear_path returns, false
\* exactly when an asteroid lies on a lattice point strictly between them on
\* the segment that joins them; it returns the same with the points
\* exchanged; it reads only cells of the map, all of them between the points.
C26_ClearPathIffNoneBetween ==
  SightCalled =>
    /\ puzzle.pc = "returned"
    /\ puzzle.result = (Between(puzzle.a, puzzle.b) \cap puzzle.map.asteroids = {})
    /\ has_clear_path(puzzle.map, puzzle.b, puzzle.a).status = "returned"
    /\ has_clear_path(puzzle.map, puzzle.b, puzzle.a).result = puzzle.result
    /\ puzzle.read \subseteq Cells(puzzle.map.rows, puzzle.map.cols)
    /\ puzzle.read \subseteq Between(puzzle.a, puzzle.b)

\* the path from (0, 4) to (4, 2) is blocked by the one asteroid of the map,
\* at (2, 3), which is nearer to the origin than both
C26_Witness ==
  /\ SightCalled
  /\ puzzle.a = <<4, 2>>
  /\ puzzle.b = <<0, 4>>
  /\ puzzle.map.asteroids = {<<2, 3>>}
  /\ puzzle.result = FALSE
  /\ puzzle.read = {<<2, 3>>}

\* a path past asteroids on every cell but the three between its ends
ClearAmongAsteroids ==
  /\ SightCalled
  /\ puzzle.a = <<0, 0>>
  /\ puzzle.b = <<3, 3>>
  /\ puzzle.map.asteroids \cap {<<1, 1>>, <<2, 2>>} = {}
  /\ puzzle.map.asteroids # {}
  /\ puzzle.result = TRUE
  /\ puzzle.read = {<<1, 1>>, <<2, 2>>}


(***************************************************************************)
(* C27                                                                     *)
(***************************************************************************)
\* the stages of the pipeline, made or yet to be made
Stages == 1..Len(harness.phase_settings)

\* what came to stage i through its input channel: what it received, less
\* the phase setting it received first
FromChannel(i) ==
  IF harness.received[i] = <<>> THEN <<>> ELSE Tail(harness.received[i])

\* the first thing a stage received was its phase setting
PhaseFirst(i) ==
  harness.received[i] # <<>> => harness.received[i][1] = harness.phase_settings[i]

\* C27: in get_output a stage exists, and so executes, only when every stage
\* before it has halted; every stage receives its phase setting first; what
\* the first stage then receives is the seed 0, and what a later stage then
\* receives are the values the stage before it emitted, in the order they
\* were emitted, none of them twice: the values received and the values still
\* in the channel make up, in order, the values sent.
C27_ChainInOrder ==
  harness.topology = "chain" =>
    /\ \A i \in 1..(Len(computers) - 1) : computers[i].status = "halted"
    /\ \A i \in Stages :
         /\ i > Len(computers) => harness.received[i] = <<>> /\ harness.sent[i] = <<>>
         /\ PhaseFirst(i)
         /\ IsPrefix(FromChannel(i),
                     IF i = 1 THEN <<0>> ELSE harness.sent[i - 1])
         /\ FromChannel(i) \o queues[i - 1]
              = IF i = 1 THEN <<0>> ELSE harness.sent[i - 1]

\* the second stage has received, after its phase setting, the two different
\* values the first stage had emitted, in their order
C27_Witness ==
  /\ harness.topology = "chain"
  /\ harness.program = ReadMore
  /\ Len(computers) = 2
  /\ harness.sent[1] = <<0, 7>>
  /\ harness.received[2] = <<1, 0, 7>>


(***************************************************************************)
(* C28                                                                     *)
(***************************************************************************)
\* no stage of the ring has completed an input or an output, and nothing was
\* forwarded
RingUntouched ==
  /\ harness.received = NothingYet(Len(computers))
  /\ harness.sent = NothingYet(Len(computers))
  /\ harness.forwarded = 0

\* C28: in get_output_with_feedback_loop the seed 0 is in the first stage's
\* input channel, once, before any stage has received or sent anything; every
\* stage receives its phase setting first; the first stage then receives the
\* seed and after it the values the last stage emitted, in their order, and
\* every other stage the values the stage before it emitted, in their order:
\* the values received and the values still in the channel make up, in order,
\* the values sent into it.
C28_RingInOrder ==
  harness.topology = "ring" =>
    /\ RingUntouched => queues[0] = <<0>>
    /\ \A i \in Stages :
         /\ PhaseFirst(i)
         /\ IsPrefix(FromChannel(i),
                     IF i = 1 THEN <<0>> \o harness.sent[Len(computers)]
                     ELSE harness.sent[i - 1])
         /\ FromChannel(i) \o queues[i - 1]
              = IF i = 1 THEN <<0>> \o harness.forwarded_to_first
                ELSE harness.sent[i - 1]
    /\ IsPrefix(harness.forwarded_to_first, harness.sent[Len(computers)])

\* the first stage has received its phase setting, the seed, and a value the
\* last stage emitted and the forwarding loop passed on
C28_Witness ==
  /\ harness.topology = "ring"
  /\ harness.program = ReadMore
  /\ Len(computers) = 2
  /\ harness.phase_settings = <<1, 0>>
  /\ harness.sent[2] = <<0, 7>>
  /\ harness.received[1] = <<1, 0, 0>>
  /\ harness.received[2] = <<0, 0>>


(***************************************************************************)
(* C29                                                                     *)
(***************************************************************************)
\* the memory of machine m holds the program as it was passed in, cell by
\* cell from address 0
HoldsProgram(m) ==
  /\ DOMAIN m.memory = 0..(Len(harness.program) - 1)
  /\ \A a \in DOMAIN m.memory : m.memory[a] = harness.program[a + 1]

\* every stage there is holds the program as it was passed in
AllFresh == \A i \in 1..Len(computers) : HoldsProgram(computers[i])

\* a step in which a stage changes changes no other stage
OneStageChanges ==
  \A i \in 1..Len(computers) :
    computers'[i] # computers[i] =>
      \A j \in (1..Len(computers)) \ {i} : computers'[j] = computers[j]

\* a stage made in a step holds the program as it was passed in and its own
\* phase setting, and the stages before it stay as they are
MadeFresh ==
  Len(computers') > Len(computers) =>
    LET made == computers'[Len(computers')]
    IN /\ HoldsProgram(made)
       /\ made.cmd_ptr = 0
       /\ made.phase_setting = <<harness.phase_settings[Len(computers')]>>
       /\ \A j \in 1..Len(computers) : computers'[j] = computers[j]

\* C29: every stage of a chain or a ring has memory of its own, copied from
\* the program when the stage is made: the stages that exist when the
\* pipeline starts hold the program as passed in, a stage made later is made
\* of that same program whatever the stages before it wrote, a step of one
\* stage changes no other stage, and no step changes the program passed in.
C29_PrivateMemory ==
  AllFresh /\ [][/\ harness'.program = harness.program
                 /\ harness'.phase_settings = harness.phase_settings
                 /\ OneStageChanges
                 /\ MadeFresh]_vars

\* two stages of a ring have both written to their memory, each something
\* else
C29_Witness ==
  /\ harness.topology = "ring"
  /\ Len(computers) = 2
  /\ ~HoldsProgram(computers[1])
  /\ ~HoldsProgram(computers[2])
  /\ computers[1].memory # computers[2].memory

\* the second stage of a chain starts after the first wrote to its memory
LaterStageMade ==
  /\ harness.topology = "chain"
  /\ Len(computers) = 2
  /\ ~HoldsProgram(computers[1])
  /\ HoldsProgram(computers[2])


(***************************************************************************)
(* C30                                                                     *)
(***************************************************************************)
\* stage i of the ring is blocked on an input instruction: it runs, its next
\* instruction is an input, its phase setting is consumed, its channel is
\* empty and a sender of the channel lives
BlockedOnInput(i) ==
  /\ computers[i].status = "running"
  /\ Fetched(computers[i]) = 3
  /\ computers[i].phase_setting = <<>>
  /\ queues[i - 1] = <<>>
  /\ RingSenderLives(i)

\* the ring has stalled: some stage lives, every stage that lives is blocked
\* on an input instruction with an empty channel, and nothing the last stage
\* emitted waits to be forwarded
Stalled ==
  /\ harness.topology = "ring"
  /\ harness.pc = "forwarding"
  /\ \E i \in 1..Len(computers) : computers[i].status = "running"
  /\ \A i \in 1..Len(computers) :
       computers[i].status = "running" => BlockedOnInput(i)
  /\ queues[Len(computers)] = <<>>

\* C30: once every live stage of get_output_with_feedback_loop is blocked on
\* an input instruction with an empty input channel nothing happens any
\* more: no stage takes a step, no stage aborts, the function does not
\* return.
C30_StalledRingHangs == [][~Stalled]_vars

\* what holds: a stalled ring whose last stage is among the blocked ones
\* takes no step
StalledWithLastStage == Stalled /\ computers[Len(computers)].status = "running"

LastStageBlockedHangs == [][~StalledWithLastStage]_vars

\* a ring of two has stalled with its last stage blocked
HangsForever ==
  /\ StalledWithLastStage
  /\ Len(computers) = 2
  /\ harness.program = ReadOn

\* the function returned while the first stage was blocked on an input
ReturnedWhileBlocked ==
  /\ RingReturned
  /\ harness.program = ReadOn
  /\ harness.phase_settings = <<0, 1>>
  /\ harness.status_at_return[1] = <<"running", "halted">>
  /\ Fetched(computers[1]) = 3
  /\ queues[0] = <<>>

\* the stage that was blocked when the function returned then aborted on its
\* input
BlockedStageAborted ==
  /\ RingReturned
  /\ harness.program = ReadOn
  /\ harness.phase_settings = <<0, 1>>
  /\ harness.status_at_return[1] = <<"running", "halted">>
  /\ harness.received[1] = <<0, 0, 0>>
  /\ computers[1].status = "recv"

\* the only step a stalled ring takes is the return of the function
StalledOnlyReturns == [][Stalled => harness'.pc = "returned"]_vars


(***************************************************************************)
(* C31                                                                     *)
(***************************************************************************)
\* the parameters of the instruction at the pointer whose address, by the
\* addressing rules, is at or beyond the end of memory
BeyondParams(m) ==
  {i \in 1..arg_count(m.kind, Fetched(m)) : Address(m, i) >= MemLen(m)}

\* the last step found its opcode word beyond the end of memory
OpcodeBeyond == Stepped /\ Before.cmd_ptr >= MemLen(Before)

\* the last step found a known opcode with modes the engine knows, and fewer
\* words after it than the opcode has parameters
ParametersBeyond ==
  /\ Stepped
  /\ InBounds(Before, Before.cmd_ptr)
  /\ LET d == decode_instruction(Before)
     IN /\ \A i \in 1..3 : d.modes[i] # "panic"
        /\ d.opcode \in KnownOpcodes(Before.kind)
        /\ Before.cmd_ptr + arg_count(Before.kind, d.opcode) >= MemLen(Before)

\* the last instruction indexed memory at or beyond its end
AddressBeyond ==
  /\ Stepped
  /\ Op # -1
  /\ \E i \in BeyondParams(Before) : Indexed(i)

\* C31: the memory of an engine keeps the length it was made with (program
\* words and the caller's scratch cells); a step whose opcode word or whose
\* parameter words lie beyond the end of memory, or whose handler reads or
\* writes an address at or beyond the end, aborts the engine with memory as
\* it was and nothing written or sent: memory does not grow and the address
\* does not wrap around.
C31_MemoryLengthFixed ==
  /\ DOMAIN computer.memory = DOMAIN loaded.memory
  /\ (OpcodeBeyond \/ ParametersBeyond) =>
       /\ computer.status = "index"
       /\ NothingWrittenOrSent
       /\ NoIO
  /\ AddressBeyond =>
       /\ Aborted
       /\ NothingWrittenOrSent

\* a comparison whose destination is far beyond the end of memory aborted
C31_Witness ==
  /\ AddressBeyond
  /\ Op = 7
  /\ BeyondParams(Before) = {3}
  /\ Raw(Before, 3) = MaxWord
  /\ computer.status = "index"
  /\ DOMAIN computer.memory = DOMAIN Before.memory

\* a jump left memory and the next fetch aborted
JumpedBeyond ==
  /\ OpcodeBeyond
  /\ Before.cmd_ptr = MaxWord
  /\ computer.status = "index"

\* the program ended inside an instruction
EndedInside ==
  /\ ParametersBeyond
  /\ Before.cmd_ptr = 4
  /\ MemLen(Before) = 6
  /\ computer.status = "index"

\* base + offset beyond the end of memory and beyond the word range
BeyondTheWord ==
  /\ AddressBeyond
  /\ \E i \in BeyondParams(Before) : ~Fits(Address(Before, i))
  /\ ~overflow_checks
  /\ computer.status = "index"


(***************************************************************************)
(* C32                                                                     *)
(***************************************************************************)
\* the parameters the opcode of the word decoded by the last step has
Declared == arg_count(Before.kind, Decoded % 100)

\* the last step decoded a word with a known opcode, a mode code of the
\* engine in the position of every parameter the opcode has, a digit other
\* than 0 in the position of a parameter it does not have, and parameters
\* that name cells of memory
UndeclaredDigits ==
  /\ DecodedWord
  /\ (Decoded % 100) \in KnownOpcodes(Before.kind)
  /\ Before.cmd_ptr + Declared < MemLen(Before)
  /\ \A i \in 1..Declared :
       /\ DecodedDigit(i) \in ModeCodes(Before.kind)
       /\ InBounds(Before, Address(Before, i))
  /\ \E i \in (Declared + 1)..3 : DecodedDigit(i) # 0

\* what the handler of the opcode does on the addresses of the parameters
\* the opcode has
AsDeclared ==
  get_command([Before EXCEPT !.cmd_ptr = @ + 1], Decoded % 100,
              [i \in 1..Declared |-> Address(Before, i)],
              BeforeRx, TRUE, TRUE, overflow_checks)

\* the last step did what the opcode does, on the parameters the opcode has
ExecutedAsDeclared ==
  /\ computer = AsDeclared.m
  /\ rx_outer = BeforeOut \o AsDeclared.send

\* C32 as stated: a word with a known opcode is executed as its opcode
\* whatever digits stand in the positions of parameters the opcode does
\* not have.
C32_Original == UndeclaredDigits => ExecutedAsDeclared

\* C32, amended: it is when those digits are mode codes of the engine (0, 1,
\* and 2 where the engine has relative mode); any other digit in one of the
\* three positions aborts the engine in decode_instruction, the pointer
\* advanced by one and nothing else changed.
C32_UndeclaredModeDigits ==
  UndeclaredDigits =>
    /\ (\A i \in 1..3 : DecodedDigit(i) \in ModeCodes(Before.kind)) =>
         ExecutedAsDeclared
    /\ (\E i \in 1..3 : DecodedDigit(i) \notin ModeCodes(Before.kind)) =>
         /\ computer = [Before EXCEPT !.cmd_ptr = @ + 1, !.status = "unknown code"]
         /\ NoIO

\* 10004 put out the cell its parameter names, as 4 does
C32_Witness ==
  /\ UndeclaredDigits
  /\ Decoded = 10004
  /\ Before.kind = 7
  /\ Completed
  /\ rx_outer = <<99>>

\* 20099 halted an engine with relative mode, as 99 does
HaltedLike99 ==
  /\ UndeclaredDigits
  /\ Decoded = 20099
  /\ computer = [Before EXCEPT !.cmd_ptr = @ + 1, !.status = "halted"]

\* 30099 aborted in the decoder
Aborted30099 ==
  /\ UndeclaredDigits
  /\ Decoded = 30099
  /\ computer.status = "unknown code"


(***************************************************************************)
(* C33                                                                     *)
(***************************************************************************)
\* the cells of the grid that were assigned before or by the last step
Assigned == (DOMAIN Before.panels) \cup (DOMAIN computer.panels)

\* the last output left memory and the relative base alone and advanced the
\* pointer past the opcode word and its parameter
OutputFrame ==
  /\ computer.memory = Before.memory
  /\ computer.rel_base = Before.rel_base
  /\ computer.cmd_ptr = Before.cmd_ptr + 2

\* C33: in the painting robot a colour output v writes v to the grid cell of
\* the current position and changes no other cell, nor the position, nor the
\* heading; a turn output changes no cell of the grid and adds no cell to
\* the set of written cells; either leaves memory and the relative base as
\* they were and advances the pointer by 2 from the opcode word.
C33_OutputFrame ==
  RobotOutput =>
    /\ OutputFrame
    /\ Before.should_paint =>
         /\ PanelAt(computer, Before.position) = Emitted
         /\ \A q \in Assigned \ {Before.position} :
              PanelAt(computer, q) = PanelAt(Before, q)
         /\ computer.position = Before.position
         /\ computer.direction = Before.direction
    /\ ~Before.should_paint =>
         /\ \A q \in Assigned : PanelAt(computer, q) = PanelAt(Before, q)
         /\ computer.output = Before.output

\* a colour output wrote to a cell while two other cells held a colour
C33_Witness ==
  /\ RobotOutput
  /\ Before.should_paint
  /\ Before.position \notin {<<0, 0>>, <<-1, 0>>}
  /\ PanelAt(computer, <<0, 0>>) # PanelAt(computer, <<-1, 0>>)
  /\ Cardinality(DOMAIN computer.panels) >= 3
  /\ Emitted = 1

\* a turn output moved the robot off a painted cell
TurnedAway ==
  /\ RobotOutput
  /\ ~Before.should_paint
  /\ PanelAt(computer, Before.position) = 1
  /\ Cardinality(computer.output) = 2
  /\ computer.position \notin computer.output


(***************************************************************************)
(* C34                                                                     *)
(***************************************************************************)
\* what get_output_with_feedback_loop does on the program and the phase
\* settings of the ring when its threads are scheduled in turn, each for as
\* long as it can run
InTurn ==
  get_output_with_feedback_loop(harness.program, harness.phase_settings,
                                overflow_checks)

\* C34: whatever the interleaving of the stage threads and the forwarding
\* loop, when get_output_with_feedback_loop returns it returns the value it
\* returns when the threads run in turn: for a program and an order of
\* phase settings the value returned is always the same.
C34_SameValueWhateverOrder ==
  RingReturned =>
    /\ InTurn.status = "returned"
    /\ InTurn.value = harness.result

\* the function returned a value that is not the seed while the first stage
\* had not run to its end
C34_Witness ==
  /\ RingReturned
  /\ harness.program = ReadMore
  /\ harness.phase_settings = <<1, 0>>
  /\ harness.status_at_return[1][1] = "running"
  /\ harness.result = 7

\* at the return the first stage had aborted on a send that found the next
\* stage gone: in another order the send succeeds
SendCameLate ==
  /\ RingReturned
  /\ harness.program = EmitTwice
  /\ Len(computers) = 2
  /\ harness.status_at_return[1] = <<"send", "halted">>

SendCameInTime ==
  /\ RingReturned
  /\ harness.program = EmitTwice
  /\ Len(computers) = 2
  /\ harness.status_at_return[1] = <<"halted", "halted">>


(***************************************************************************)
(* C35                                                                     *)
(***************************************************************************)
\* the stage of the chain that runs is at an input instruction with its phase
\* setting consumed and no value in its channel
Starved ==
  /\ harness.topology = "chain"
  /\ harness.pc = "running"
  /\ LET stage == Len(computers)
     IN /\ computers[stage].status = "running"
        /\ Fetched(computers[stage]) = 3
        /\ computers[stage].phase_setting = <<>>
        /\ queues[stage - 1] = <<>>

\* the step of a starved stage is the abort of the stage, and of get_output
\* with it, on the failed recv()
StarvedAborts ==
  Starved =>
    /\ computers'[Len(computers)].status = "recv"
    /\ harness'.pc = "panicked"

\* C35 as stated: in get_output no stage waits for ever on an input: a stage
\* at an input instruction with no value available, the first stage after the
\* seed included, takes a step, and that step is its abort.
C35_Original ==
  /\ [](Starved => ENABLED ChainStep)
  /\ [][StarvedAborts]_vars

\* C35, amended: so does every stage but the first, whose sender was dropped
\* with the stage before it; the first stage, when it asks for a value after
\* the seed, waits for ever and get_output with it, because the sender of the
\* seed lives until get_output returns.
C35_OnlyLaterStagesAbort ==
  /\ []((Starved /\ Len(computers) > 1) => ENABLED ChainStep)
  /\ []((Starved /\ Len(computers) = 1) => ~ENABLED NextChain)
  /\ [][StarvedAborts]_vars

\* the second stage aborted on an input the first stage sent no value for
C35_Witness ==
  /\ harness.topology = "chain"
  /\ harness.program = ReadOn
  /\ harness.pc = "panicked"
  /\ Len(computers) = 2
  /\ computers[2].status = "recv"
  /\ harness.received[2] = <<0, 0>>
  /\ queues[1] = <<>>

\* the first stage waits for a second value after the seed
FirstStageWaits ==
  /\ Starved
  /\ Len(computers) = 1
  /\ harness.program = ReadOn
  /\ harness.received[1] = <<0, 0>>


(***************************************************************************)
(* C36                                                                     *)
(***************************************************************************)
\* the last step was an input instruction of the painting robot as solve_1
\* (input 0) or solve_2 (input 1) runs it
SolveRobotInput == RobotInput /\ loaded.value \in {0, 1}

\* the value the last input instruction stored
Stored == computer.memory[StepArgs(Before)[1]]

\* C36: every value an input instruction of the painting robot stores is the
\* grid's value at the position of the robot, the first input before any
\* output included, which stores what the start cell was seeded with; in
\* solve_1 as in solve_2.
C36_EveryInputIsGridValue ==
  SolveRobotInput => Stored = GridValue(computer.position)

\* what holds: it is so in solve_2, and in solve_1 once the robot has put out
\* a colour; before that solve_1 stores the 0 it was made with
InputIsGridValueOnceWritten ==
  SolveRobotInput =>
    /\ (loaded.value = 1 \/ outputs >= 1) => Stored = GridValue(computer.position)
    /\ (loaded.value = 0 /\ outputs = 0) =>
         /\ Stored = 0
         /\ GridValue(computer.position) = 1
         /\ PanelAt(computer, computer.position) = 1

\* the robot of solve_1 stored 0 at the start cell, which holds 1
FirstInputOfSolve1 ==
  /\ SolveRobotInput
  /\ loaded.value = 0
  /\ outputs = 0
  /\ computer.position = <<0, 0>>
  /\ Stored = 0
  /\ PanelAt(computer, <<0, 0>>) = 1

\* an input between a colour and a turn stored the colour just written
ReadColourJustWritten ==
  /\ SolveRobotInput
  /\ outputs = 3
  /\ Stored = 2
  /\ GridValue(computer.position) = 2


(***************************************************************************)
(* Problem 7: generate_permutations on queues of every length.             *)
(***************************************************************************)
\* the most elements of a queue handed to generate_permutations
MaxQueue == 4

\* the queues of at most MaxQueue distinct elements
DistinctQueues ==
  {q \in SeqsUpTo(0..MaxQueue, MaxQueue) :
     \A i, j \in 1..Len(q) : q[i] = q[j] => i = j}

\* a caller that holds an empty stack, an empty output and a queue
InitPermutations ==
  /\ NoMachine
  /\ NoPuzzle
  /\ overflow_checks \in BOOLEAN
  /\ computers = <<>>
  /\ queues = <<>>
  /\ \E queue \in DistinctQueues :
       harness = [topology |-> "permutations", pc |-> "calling", given |-> queue,
                  stack |-> <<>>, queue |-> queue, output |-> <<>>]

\* generate_permutations(&mut stack, &mut queue, output)
PermutationsCall ==
  /\ harness.topology = "permutations"
  /\ harness.pc = "calling"
  /\ LET r == generate_permutations(harness.stack, harness.queue, harness.output)
     IN harness' = [harness EXCEPT !.pc = "returned", !.stack = r.stack,
                                   !.queue = r.queue, !.output = r.output]
  /\ UNCHANGED <<computers, queues, machine_vars, overflow_checks, puzzle>>

NextPermutations == PermutationsCall

SpecPermutations == InitPermutations /\ [][NextPermutations]_vars

(***************************************************************************)
(* C37                                                                     *)
(***************************************************************************)
RECURSIVE Factorial(_)

\* n!
Factorial(n) == IF n = 0 THEN 1 ELSE n * Factorial(n - 1)

\* generate_permutations has returned to the caller
PermutationsReturned ==
  /\ harness.topology = "permutations"
  /\ harness.pc = "returned"

\* the list holds every element of the queue exactly once
EveryElementOnce(list, queue) ==
  /\ Len(list) = Len(queue)
  /\ \A i \in 1..Len(queue) : \E j \in 1..Len(list) : list[j] = queue[i]

\* C37: generate_permutations called with an empty stack, an empty output and
\* a queue of n distinct elements returns exactly n! lists, no two of them
\* equal, each holding every element of the queue exactly once; on return the
\* stack is empty again and the queue holds its elements in their first order.
C37_AllPermutations ==
  PermutationsReturned =>
    LET out == harness.output
    IN /\ Len(out) = Factorial(Len(harness.given))
       /\ \A i, j \in 1..Len(out) : out[i] = out[j] => i = j
       /\ \A i \in 1..Len(out) : EveryElementOnce(out[i], harness.given)
       /\ harness.stack = <<>>
       /\ Len(harness.queue) = Len(harness.given)
       /\ \A i \in 1..Len(harness.given) : harness.queue[i] = harness.given[i]

\* the call returned the 24 orders of a queue of four that was not in
\* ascending order
C37_Witness ==
  /\ PermutationsReturned
  /\ harness.given = <<3, 0, 4, 1>>
  /\ Len(harness.output) = 24
  /\ harness.output[1] = <<3, 0, 4, 1>>
  /\ harness.output[24] = <<1, 4, 0, 3>>

\* the call on an empty queue returned the one empty list
EmptyQueueYieldsOne ==
  /\ PermutationsReturned
  /\ harness.given = <<>>
  /\ Len(harness.output) = 1
  /\ Len(harness.output[1]) = 0


(***************************************************************************)
(* Problem 2: the first machine.  Its words are usize, its pointer is the  *)
(* iterator (0..memory.len()).step_by(4), and every instruction is add,    *)
(* mul or halt on two addresses and a result address.                      *)
(***************************************************************************)
\* IntcodeMachine::new of problem 2; cmd_ptr is the index that
\* (0..end).step_by(4) yields next
new_2(memory) ==
  [kind |-> 2, memory |-> ToVec(memory), cmd_ptr |-> 0, status |-> "running"]

\* set_noun; the caller's memory has a cell 1
set_noun(m, x) == [m EXCEPT !.memory[1] = x]

\* set_verb; the caller's memory has a cell 2
set_verb(m, x) == [m EXCEPT !.memory[2] = x]

\* get_command: the function the opcode word selects, a panic on any other
get_command_2(m, index) ==
  IF m.memory[index] = 1 THEN "add"
  ELSE IF m.memory[index] = 2 THEN "mul"
  ELSE IF m.memory[index] = 99 THEN "halt"
  ELSE "unknown instruction"

\* get_args: the two words are addresses, and both the words and the cells
\* they name are indexed
get_args_2(m, a, b) ==
  IF ~(InBounds(m, a) /\ InBounds(m, b)) THEN [panicked |-> TRUE, args |-> <<>>]
  ELSE IF ~(InBounds(m, m.memory[a]) /\ InBounds(m, m.memory[b]))
    THEN [panicked |-> TRUE, args |-> <<>>]
  ELSE [panicked |-> FALSE, args |-> <<m.memory[m.memory[a]], m.memory[m.memory[b]]>>]

\* usize::mul by halves of b, so that no partial product is wider than the
\* word plus a byte: whether the product overflows, and the wrapped product
usize_mul(a, b) ==
  LET high == a * (b \div 256)
      low == a * (b % 256)
  IN [overflow |-> high >= UsizeMod \div 256 \/ (high * 256) + low >= UsizeMod,
      wrapped |-> (((high % (UsizeMod \div 256)) * 256) + low) % UsizeMod]

\* add, mul and halt: usize::add and usize::mul panic on overflow in a build
\* with overflow checks and wrap in one without; halt yields None
command(cmd, args, oc) ==
  LET overflow == IF cmd = "add" THEN args[1] + args[2] >= UsizeMod
                  ELSE usize_mul(args[1], args[2]).overflow
      wrapped == IF cmd = "add" THEN (args[1] + args[2]) % UsizeMod
                 ELSE usize_mul(args[1], args[2]).wrapped
  IN IF cmd = "halt" THEN [status |-> "halted", result |-> 0]
     ELSE IF overflow /\ oc THEN [status |-> "overflow", result |-> 0]
     ELSE [status |-> "running", result |-> wrapped]

\* execute_step of problem 2: the next index of the iterator, the command, the
\* arguments, the result address, and only then the command itself
execute_step_2(m, oc) ==
  LET index == m.cmd_ptr
  IN IF ~InBounds(m, index) THEN [m EXCEPT !.status = "exhausted"]
     ELSE LET stepped == [m EXCEPT !.cmd_ptr = index + 4]
              cmd == get_command_2(m, index)
              got == get_args_2(m, index + 1, index + 2)
          IN IF cmd = "unknown instruction"
               THEN [stepped EXCEPT !.status = "unknown instruction"]
             ELSE IF got.panicked \/ ~InBounds(m, index + 3)
               THEN [stepped EXCEPT !.status = "index"]
             ELSE LET result_address == m.memory[index + 3]
                      done == command(cmd, got.args, oc)
                  IN IF done.status # "running"
                       THEN [stepped EXCEPT !.status = done.status]
                     ELSE IF ~InBounds(m, result_address)
                       THEN [stepped EXCEPT !.status = "index"]
                     ELSE [stepped EXCEPT !.memory[result_address] = done.result]

\* words of the memories of problem 2: addresses, an opcode that is none, a
\* word that is no address, and the greatest usize
Words2 == {0, 1, 3, 7, 50, 99, UsizeMod - 1}

\* instructions that run before the one looked at: none, two that leave the
\* words after them alone, and one that writes the opcode word after it
Prefixes2 == {<<>>, <<1, 0, 0, 0>>, <<2, 3, 0, 3>>, <<1, 5, 6, 4>>}

\* a memory long enough for set_noun(12)
LongProgram == <<1, 0, 0, 0, 99, 0, 0, 0, 0, 0, 0, 0, 30>>

\* the machine of problem 2 is made from memory and run() is entered
Load2(m) ==
  /\ computer = m
  /\ rx_computer = <<>>
  /\ rx_outer = <<>>
  /\ steps = 0
  /\ loaded = [memory |-> m.memory, value |-> 0, rx |-> <<>>]
  /\ prev = <<>>
  /\ inputs = 0
  /\ delta_sum = 0
  /\ outputs = 0
  /\ signals = <<>>
  /\ NoPuzzle
  /\ computers = <<>>
  /\ queues = <<>>
  /\ harness = [topology |-> "run_2", pc |-> "running", result |-> 0]
  /\ overflow_checks \in BOOLEAN

\* IntcodeMachine::new(memory).run() on an instruction of any words followed
\* by a halt, and on a 99 followed by up to three words of any kind
InitEngine2 ==
  \/ \E op \in {1, 2, 7, 99}, a \in Words2, b \in Words2, c \in Words2 :
       Load2(new_2(<<op, a, b, c, 99, 0, 0, 0>>))
  \/ \E pre \in Prefixes2, tail \in SeqsUpTo(Words2, 3) :
       Load2(new_2(pre \o <<99>> \o tail))
  \/ Load2(new_2(<<>>))

\* IntcodeMachine::new(input.to_vec()).set_noun(i).set_verb(j).run(), of
\* solve_1 (12, 2) and solve_2 (0..=99 each)
InitNounVerb ==
  \E i \in {0, 4, 12}, j \in {0, 2, 12} :
    Load2(set_verb(set_noun(new_2(LongProgram), i), j))

Init2 == InitEngine2 \/ InitNounVerb

\* run(): one next() of for_each; when it yields None the loop is over and
\* run returns memory[0], itself an index panic on an empty memory
Run2 ==
  /\ harness.topology = "run_2"
  /\ harness.pc = "running"
  /\ LET m == execute_step_2(computer, overflow_checks)
     IN /\ computer' = m
        /\ harness' =
             IF m.status = "running" THEN harness
             ELSE IF m.status \in {"halted", "exhausted"} /\ InBounds(m, 0)
               THEN [harness EXCEPT !.pc = "returned", !.result = m.memory[0]]
             ELSE [harness EXCEPT !.pc = "panicked"]
  /\ steps' = steps + 1
  /\ prev' = <<[computer |-> computer]>>
  /\ UNCHANGED <<rx_computer, rx_outer, loaded, inputs, delta_sum, outputs,
                 signals, computers, queues, overflow_checks, puzzle>>

Next2 == Run2

Spec2 == Init2 /\ [][Next2]_vars

(***************************************************************************)
(* C38                                                                     *)
(***************************************************************************)
\* the last step of the problem-2 engine was one whose opcode word is 99
HaltStep2 ==
  /\ harness.topology = "run_2"
  /\ prev # <<>>
  /\ InBounds(prev[1].computer, prev[1].computer.cmd_ptr)
  /\ prev[1].computer.memory[prev[1].computer.cmd_ptr] = 99

\* the last step changed no cell of memory
MemoryKept2 ==
  /\ DOMAIN computer.memory = DOMAIN prev[1].computer.memory
  /\ \A a \in DOMAIN computer.memory : computer.memory[a] = prev[1].computer.memory[a]

\* three words follow the opcode of the last step and the first two are
\* addresses of memory
OperandsAddressed2 ==
  LET m == prev[1].computer
  IN /\ InBounds(m, m.cmd_ptr + 3)
     /\ InBounds(m, m.memory[m.cmd_ptr + 1])
     /\ InBounds(m, m.memory[m.cmd_ptr + 2])

\* C38: in the problem-2 engine a step whose opcode word is 99 ends run()
\* without fault and without changing memory whatever the three following
\* words are, also when they are no addresses of memory and when fewer than
\* three words follow; run() then returns memory[0].
C38_HaltEndsRun ==
  HaltStep2 =>
    /\ harness.pc = "returned"
    /\ harness.result = computer.memory[0]
    /\ MemoryKept2

\* what holds: the halt ends run() as said when its operands can be fetched,
\* and is an index panic, memory unchanged, when they cannot
HaltFetchesOperands ==
  HaltStep2 =>
    /\ MemoryKept2
    /\ OperandsAddressed2 =>
         /\ harness.pc = "returned"
         /\ harness.result = computer.memory[0]
         /\ computer.status = "halted"
    /\ ~OperandsAddressed2 =>
         /\ harness.pc = "panicked"
         /\ computer.status = "index"

\* a 99 that is the last word of memory was an index panic
HaltAtEndPanicked ==
  /\ HaltStep2
  /\ prev[1].computer.cmd_ptr = MemLen(computer) - 1
  /\ harness.pc = "panicked"

\* a 99 followed by three words of which one is no address was an index panic
HaltBeforeNoAddressPanicked ==
  /\ HaltStep2
  /\ InBounds(computer, prev[1].computer.cmd_ptr + 3)
  /\ computer.memory[prev[1].computer.cmd_ptr + 1] = 50
  /\ harness.pc = "panicked"

\* a 99 followed by addresses ended run() after an instruction had run
HaltReturned ==
  /\ HaltStep2
  /\ steps = 2
  /\ harness.pc = "returned"
  /\ harness.result = 2


(***************************************************************************)
(* C39                                                                     *)
(***************************************************************************)
\* x and y are coordinates of a cell of the 1000 x 1000 array
InArray(pos) ==
  /\ -500 <= pos[1] /\ pos[1] <= 499
  /\ -500 <= pos[2] /\ pos[2] <= 499

\* the last step was an output instruction of the robot, its operand a cell
\* of memory
OutputAttempted ==
  /\ Stepped
  /\ Before.kind = 11
  /\ Op = 4
  /\ InBounds(Before, StepArgs(Before)[1])

\* every cell of the grid holds what it held before the last step
GridKept == \A pos \in DOMAIN computer.panels \cup DOMAIN Before.panels :
              PanelAt(computer, pos) = PanelAt(Before, pos)

\* C39: every grid read or write of the painting robot uses the robot's true
\* position inside the 1000 x 1000 array: a move that takes the robot to an x
\* or y outside [-500, 499] aborts the engine at that output step, and no
\* other cell is read or written in its place.
C39_EdgeAborts ==
  /\ (computer.kind = 11 /\ computer.status = "running") => InArray(computer.position)
  /\ (OutputAttempted /\ Before.should_paint) =>
       /\ InArray(Before.position)
       /\ Completed
       /\ PanelAt(computer, Before.position) = Emitted
       /\ \A pos \in DOMAIN computer.panels \cup DOMAIN Before.panels :
            pos # Before.position => PanelAt(computer, pos) = PanelAt(Before, pos)
  /\ (OutputAttempted /\ ~Before.should_paint /\ InArray(computer.position)) =>
       /\ Completed
       /\ GridKept
       /\ computer.input_signal = PanelAt(Before, computer.position)
  /\ (OutputAttempted /\ ~Before.should_paint /\ ~InArray(computer.position)) =>
       /\ computer.status = "index"
       /\ GridKept
       /\ computer.input_signal = Before.input_signal
       /\ outputs = Len(signals)
       /\ signals[Len(signals)].at = Before.position

\* a move to x = -501 aborted the engine
C39_Witness ==
  /\ OutputAttempted
  /\ ~Before.should_paint
  /\ Before.position = <<-500, -500>>
  /\ computer.position = <<-501, -500>>
  /\ computer.status = "index"
  /\ Cardinality(computer.output) = 1001

\* a move to x = 500 aborted the engine
RightEdgeAborted ==
  /\ OutputAttempted
  /\ computer.position[1] = 500
  /\ computer.status = "index"

\* a move to y = 500 aborted the engine
TopEdgeAborted ==
  /\ OutputAttempted
  /\ computer.position[2] = 500
  /\ computer.status = "index"

\* a move to y = -501 aborted the engine
BottomEdgeAborted ==
  /\ OutputAttempted
  /\ computer.position[2] = -501
  /\ computer.status = "index"

\* the robot stood on the last column and on the first row of the array and
\* went on
StoodOnTheEdge ==
  /\ computer.kind = 11
  /\ computer.status = "running"
  /\ computer.position[1] = 499 \/ computer.position[2] = -500

====
